---------------------------- MODULE Spec2Model ----------------------------
(***************************************************************************)
(* A model of BTreeMap (src/libcollections/btree/map.rs): the map, its     *)
(* search stack (mod stack) and its iterators (AbsIter).                   *)
(*                                                                         *)
(* A node is a record [keys, vals, edges]; a leaf has edges = <<>>.  A     *)
(* child node is stored inside its parent's edges array, so the address    *)
(* of a node (a *mut Node) is the sequence of edge indices leading to it   *)
(* from map.root: a path.  Handle indices are 0-based, as in the source.   *)
(*                                                                         *)
(* The node primitives (btree/node.rs) are not part of the sources at      *)
(* hand; they are modelled from section 4.1 of the specification.          *)
(***************************************************************************)
EXTENDS Integers, Sequences, FiniteSets, TLC

\* ------------------------------------------------------------------ bounds
\* keys are 1..MaxKey
MaxKey == 10
\* keys 2..MaxDup+1 are inserted with either of two values, the others with one
\* (key 1 never leaves the leftmost leaf)
MaxDup == 1
\* the branching parameter b is 2..MaxB
MaxB == 3

Keys == 1..MaxKey
\* the values inserted under key: they name the key, as (i, 10*i) and
\* (i, 100*i) in test_basic_large
ValsOf(key) ==
    {10 * key + 1} \cup (IF key >= 2 /\ key <= MaxDup + 1 THEN {10 * key + 2} ELSE {})
\* Option::None; values are positive
None == 0

\* ------------------------------------------------------- sequence helpers
\* s with x inserted so that it ends up at 0-based position i
InsertAt(s, i, x) == SubSeq(s, 1, i) \o <<x>> \o SubSeq(s, i + 1, Len(s))
\* s without its element at 0-based position i
RemoveAt(s, i) == SubSeq(s, 1, i) \o SubSeq(s, i + 2, Len(s))
\* the element of s at 0-based position i
At(s, i) == s[i + 1]
Last(s) == s[Len(s)]
Front(s) == SubSeq(s, 1, Len(s) - 1)

\* ------------------------------------------------ node.rs (spec-modelled)
make_leaf_root == [keys |-> <<>>, vals |-> <<>>, edges |-> <<>>]
len(node) == Len(node.keys)
is_leaf(node) == node.edges = <<>>
capacity(B) == 2 * B - 1
min_load(B) == B - 1
is_full(node, B) == len(node) = capacity(B)
is_underfull(node, B) == len(node) < min_load(B)

\* Node::search: linear scan; Found(kv handle i) or GoDown(edge handle i)
RECURSIVE search_from(_, _, _)
search_from(node, key, i) ==
    IF i >= len(node) THEN [found |-> FALSE, index |-> len(node)]
    ELSE IF At(node.keys, i) = key THEN [found |-> TRUE, index |-> i]
    ELSE IF At(node.keys, i) > key THEN [found |-> FALSE, index |-> i]
    ELSE search_from(node, key, i + 1)
search(node, key) == search_from(node, key, 0)

\* shift keys/values at index..len one slot right and write (key, val)
insert_kv(node, index, key, val) ==
    [node EXCEPT !.keys = InsertAt(@, index, key),
                 !.vals = InsertAt(@, index, val)]
\* insert_kv plus the new child immediately right of the edge slot
insert_kv_edge(node, index, key, val, right) ==
    [keys |-> InsertAt(node.keys, index, key),
     vals |-> InsertAt(node.vals, index, val),
     edges |-> InsertAt(node.edges, index + 1, right)]

\* split of a full node around its median: left B-1 pairs, right B-1 pairs
split(node, B) ==
    LET n == len(node)
        left_len == B - 1
    IN  [left  |-> [keys |-> SubSeq(node.keys, 1, left_len),
                    vals |-> SubSeq(node.vals, 1, left_len),
                    edges |-> IF is_leaf(node) THEN <<>>
                              ELSE SubSeq(node.edges, 1, left_len + 1)],
         key   |-> At(node.keys, left_len),
         val   |-> At(node.vals, left_len),
         right |-> [keys |-> SubSeq(node.keys, left_len + 2, n),
                    vals |-> SubSeq(node.vals, left_len + 2, n),
                    edges |-> IF is_leaf(node) THEN <<>>
                              ELSE SubSeq(node.edges, left_len + 2, n + 1)]]

\* insert_as_leaf as Open Data Structures has it: insert regardless of the
\* capacity, then split the overfull node into B-1 pairs, a median and B pairs
insert_as_leaf_then_split(node, index, key, val, B) ==
    IF ~is_full(node, B)
    THEN [fit |-> TRUE, node |-> insert_kv(node, index, key, val),
          key |-> None, val |-> None, right |-> make_leaf_root,
          side |-> "left", at |-> index]
    ELSE LET over == insert_kv(node, index, key, val)
         IN  [fit |-> FALSE,
              node |-> [keys |-> SubSeq(over.keys, 1, B - 1),
                        vals |-> SubSeq(over.vals, 1, B - 1),
                        edges |-> <<>>],
              key |-> At(over.keys, B - 1), val |-> At(over.vals, B - 1),
              right |-> [keys |-> SubSeq(over.keys, B + 1, 2 * B),
                         vals |-> SubSeq(over.vals, B + 1, 2 * B),
                         edges |-> <<>>],
              side |-> IF index < B THEN "left" ELSE "right",
              at |-> IF index < B THEN index ELSE index - B]

\* InsertionResult: Fit, or Split(key, val, right); node is the handle's node
\* afterwards; slot is where the inserted value sits: in the node itself
\* ("left") or in the split-off node ("right"), at index at.
insert_as_leaf(node, index, key, val, B) ==
    IF ~is_full(node, B)
    THEN [fit |-> TRUE, node |-> insert_kv(node, index, key, val),
          key |-> None, val |-> None, right |-> make_leaf_root,
          side |-> "left", at |-> index]
    ELSE LET s == split(node, B)
             left_len == len(s.left)
         IN  IF index <= left_len
             THEN [fit |-> FALSE, node |-> insert_kv(s.left, index, key, val),
                   key |-> s.key, val |-> s.val, right |-> s.right,
                   side |-> "left", at |-> index]
             ELSE [fit |-> FALSE, node |-> s.left,
                   key |-> s.key, val |-> s.val,
                   right |-> insert_kv(s.right, index - left_len - 1, key, val),
                   side |-> "right", at |-> index - left_len - 1]

insert_as_internal(node, index, key, val, right, B) ==
    IF ~is_full(node, B)
    THEN [fit |-> TRUE, node |-> insert_kv_edge(node, index, key, val, right),
          key |-> None, val |-> None, right |-> make_leaf_root,
          side |-> "left", at |-> index]
    ELSE LET s == split(node, B)
             left_len == len(s.left)
         IN  IF index <= left_len
             THEN [fit |-> FALSE,
                   node |-> insert_kv_edge(s.left, index, key, val, right),
                   key |-> s.key, val |-> s.val, right |-> s.right,
                   side |-> "left", at |-> index]
             ELSE [fit |-> FALSE, node |-> s.left,
                   key |-> s.key, val |-> s.val,
                   right |-> insert_kv_edge(s.right, index - left_len - 1,
                                            key, val, right),
                   side |-> "right", at |-> index - left_len - 1]

\* Node::make_internal_root: the old root becomes the left child, in place
make_internal_root(root, key, val, right) ==
    [keys |-> <<key>>, vals |-> <<val>>, edges |-> <<root, right>>]

\* shift keys/values at index+1..len one slot left
remove_as_leaf(node, index) ==
    [node EXCEPT !.keys = RemoveAt(@, index), !.vals = RemoveAt(@, index)]

\* the root, internal with no keys, is replaced by its single child
hoist_lone_child(root) == At(root.edges, 0)

\* the child at index takes the last pair (and child) of its left sibling
\* through the parent's separator at index-1
steal_from_left(parent, index) ==
    LET left == At(parent.edges, index - 1)
        child == At(parent.edges, index)
        left2 == [keys |-> Front(left.keys), vals |-> Front(left.vals),
                  edges |-> IF is_leaf(left) THEN <<>> ELSE Front(left.edges)]
        child2 == [keys |-> <<At(parent.keys, index - 1)>> \o child.keys,
                   vals |-> <<At(parent.vals, index - 1)>> \o child.vals,
                   edges |-> IF is_leaf(left) THEN child.edges
                             ELSE <<Last(left.edges)>> \o child.edges]
    IN  [keys |-> [parent.keys EXCEPT ![index] = Last(left.keys)],
         vals |-> [parent.vals EXCEPT ![index] = Last(left.vals)],
         edges |-> [parent.edges EXCEPT ![index] = left2,
                                        ![index + 1] = child2]]

\* steal_from_right handing the sibling's first pair to the child directly and
\* leaving the parent's separator where it is
steal_from_right_past_parent(parent, index) ==
    LET right == At(parent.edges, index + 1)
        child == At(parent.edges, index)
        right2 == [keys |-> Tail(right.keys), vals |-> Tail(right.vals),
                   edges |-> IF is_leaf(right) THEN <<>> ELSE Tail(right.edges)]
        child2 == [keys |-> Append(child.keys, Head(right.keys)),
                   vals |-> Append(child.vals, Head(right.vals)),
                   edges |-> IF is_leaf(right) THEN child.edges
                             ELSE Append(child.edges, Head(right.edges))]
    IN  [keys |-> parent.keys,
         vals |-> parent.vals,
         edges |-> [parent.edges EXCEPT ![index + 1] = child2,
                                        ![index + 2] = right2]]

\* the child at index takes the first pair (and child) of its right sibling
\* through the parent's separator at index
steal_from_right(parent, index) ==
    LET right == At(parent.edges, index + 1)
        child == At(parent.edges, index)
        right2 == [keys |-> Tail(right.keys), vals |-> Tail(right.vals),
                   edges |-> IF is_leaf(right) THEN <<>> ELSE Tail(right.edges)]
        child2 == [keys |-> Append(child.keys, At(parent.keys, index)),
                   vals |-> Append(child.vals, At(parent.vals, index)),
                   edges |-> IF is_leaf(right) THEN child.edges
                             ELSE Append(child.edges, Head(right.edges))]
    IN  [keys |-> [parent.keys EXCEPT ![index + 1] = Head(right.keys)],
         vals |-> [parent.vals EXCEPT ![index + 1] = Head(right.vals)],
         edges |-> [parent.edges EXCEPT ![index + 1] = child2,
                                        ![index + 2] = right2]]

\* merge_children taking the separator out of the parent without putting it
\* into the merged node
merge_children_drop_separator(parent, i) ==
    LET left == At(parent.edges, i)
        right == At(parent.edges, i + 1)
        merged == [keys |-> left.keys \o right.keys,
                   vals |-> left.vals \o right.vals,
                   edges |-> left.edges \o right.edges]
    IN  [keys |-> RemoveAt(parent.keys, i),
         vals |-> RemoveAt(parent.vals, i),
         edges |-> [RemoveAt(parent.edges, i + 1) EXCEPT ![i + 1] = merged]]

\* the children left and right of the separator at kv index i become one node:
\* left + separator + right; the separator and the right reference leave parent
merge_children(parent, i) ==
    LET left == At(parent.edges, i)
        right == At(parent.edges, i + 1)
        merged == [keys |-> left.keys \o <<At(parent.keys, i)>> \o right.keys,
                   vals |-> left.vals \o <<At(parent.vals, i)>> \o right.vals,
                   edges |-> left.edges \o right.edges]
    IN  [keys |-> RemoveAt(parent.keys, i),
         vals |-> RemoveAt(parent.vals, i),
         edges |-> [RemoveAt(parent.edges, i + 1) EXCEPT ![i + 1] = merged]]

\* the child at edge index is underfull: steal from the left sibling if it has
\* more than B-1 pairs, else from the right sibling if it has, else merge
handle_underflow(parent, index, B) ==
    IF index > 0 /\ len(At(parent.edges, index - 1)) > min_load(B)
    THEN steal_from_left(parent, index)
    ELSE IF index < len(parent) /\ len(At(parent.edges, index + 1)) > min_load(B)
    THEN steal_from_right(parent, index)
    ELSE IF index > 0 THEN merge_children(parent, index - 1)
    ELSE merge_children(parent, index)

\* --------------------------------------------------------- node addresses
\* the node a pointer designates: follow the path of edge indices from root
RECURSIVE NodeAt(_, _)
NodeAt(root, path) ==
    IF path = <<>> THEN root
    ELSE NodeAt(At(root.edges, Head(path)), Tail(path))

\* a write through a pointer: the tree with the node at path replaced
RECURSIVE SetNode(_, _, _)
SetNode(root, path, node) ==
    IF path = <<>> THEN node
    ELSE [root EXCEPT !.edges[Head(path) + 1] = SetNode(@, Tail(path), node)]


\* ------------------------------------------------------- map.rs: BTreeMap
\* no map: what a constructor that panicked leaves
NoMap == [root |-> make_leaf_root, length |-> 0, depth |-> 0, b |-> 0]

\* with_b without the assert: any b makes a map
with_b_unchecked(B) == [root |-> make_leaf_root, length |-> 0, depth |-> 1, b |-> B]

\* BTreeMap::with_b: assert!(b > 1), then the empty map with an empty leaf root
with_b(B) ==
    IF B > 1
    THEN [root |-> make_leaf_root, length |-> 0, depth |-> 1, b |-> B]
    ELSE NoMap

\* new with the smallest legal B
new_smallest == with_b(2)


\* BTreeMap::new: a reasonable choice for B
new == with_b(6)

\* BTreeMap::len and is_empty
map_len(map) == map.length
is_empty(map) == map_len(map) = 0

\* BTreeMap::get: the loop over cur_node
RECURSIVE get_loop(_, _)
get_loop(cur_node, key) ==
    LET r == search(cur_node, key)
    IN  IF r.found THEN At(cur_node.vals, r.index)
        ELSE IF is_leaf(cur_node) THEN None
        ELSE get_loop(At(cur_node.edges, r.index), key)
get(map, key) == get_loop(map.root, key)
\* contains_key looking for the key in the root node only
contains_key_root_only(map, key) == search(map.root, key).found

\* BTreeMap::contains_key: get(key).is_some()

contains_key(map, key) == get(map, key) # None

\* ------------------------------------------------------ map.rs: mod stack
\* a handle is [node |-> path, index |-> i]; a stack is a sequence of edge
\* handles of internal nodes
Handle(node, index) == [node |-> node, index |-> index]

\* PartialSearchStack::new: next is the root, the stack is empty
PartialSearchStack_new(map) == [stack |-> <<>>, next |-> <<>>]

\* Pusher::push: the edge handle goes on the stack, next is the child behind it
push(pusher, edge) ==
    [stack |-> Append(pusher.stack, edge),
     next |-> Append(edge.node, edge.index)]

\* Pusher::seal
seal(pusher, handle) == [stack |-> pusher.stack, top |-> handle]

\* insert_loop with the root split forgetting self.map.depth += 1
RECURSIVE insert_loop_keep_depth(_, _, _)
insert_loop_keep_depth(map, stack, insertion) ==
    IF insertion.fit THEN map
    ELSE IF stack = <<>>
    THEN [map EXCEPT !.root = make_internal_root(@, insertion.key,
                                                 insertion.val, insertion.right)]
    ELSE LET handle == Last(stack)
             ins == insert_as_internal(NodeAt(map.root, handle.node), handle.index,
                                       insertion.key, insertion.val,
                                       insertion.right, map.b)
         IN  insert_loop_keep_depth(
                 [map EXCEPT !.root = SetNode(@, handle.node, ins.node)],
                 Front(stack), ins)

\* insert_loop inserting the split's pair into the parent without the new child
RECURSIVE insert_loop_drop_right(_, _, _)
insert_loop_drop_right(map, stack, insertion) ==
    IF insertion.fit THEN map
    ELSE IF stack = <<>>
    THEN [map EXCEPT !.root = make_internal_root(@, insertion.key,
                                                 insertion.val, insertion.right),
                     !.depth = @ + 1]
    ELSE LET handle == Last(stack)
             parent == NodeAt(map.root, handle.node)
             ins == insert_as_leaf(parent, handle.index,
                                   insertion.key, insertion.val, map.b)
         IN  insert_loop_drop_right(
                 [map EXCEPT !.root = SetNode(@, handle.node,
                                 [ins.node EXCEPT !.edges = parent.edges])],
                 Front(stack), ins)

\* insert_loop building the new root with the split-off node as the left child
RECURSIVE insert_loop_root_swapped(_, _, _)
insert_loop_root_swapped(map, stack, insertion) ==
    IF insertion.fit THEN map
    ELSE IF stack = <<>>
    THEN [map EXCEPT !.root = [keys |-> <<insertion.key>>,
                               vals |-> <<insertion.val>>,
                               edges |-> <<insertion.right, map.root>>],
                     !.depth = @ + 1]
    ELSE LET handle == Last(stack)
             ins == insert_as_internal(NodeAt(map.root, handle.node), handle.index,
                                       insertion.key, insertion.val,
                                       insertion.right, map.b)
         IN  insert_loop_root_swapped(
                 [map EXCEPT !.root = SetNode(@, handle.node, ins.node)],
                 Front(stack), ins)

\* SearchStack::insert, the loop over the insertion result
RECURSIVE insert_loop(_, _, _)
insert_loop(map, stack, insertion) ==
    IF insertion.fit THEN map
    ELSE IF stack = <<>>
    THEN [map EXCEPT !.root = make_internal_root(@, insertion.key,
                                                 insertion.val, insertion.right),
                     !.depth = @ + 1]
    ELSE LET handle == Last(stack)
             ins == insert_as_internal(NodeAt(map.root, handle.node), handle.index,
                                       insertion.key, insertion.val,
                                       insertion.right, map.b)
         IN  insert_loop([map EXCEPT !.root = SetNode(@, handle.node, ins.node)],
                         Front(stack), ins)

\* stack_insert forgetting self.map.length += 1
stack_insert_keep_length(map, st, key, val) ==
    LET ins == insert_as_leaf(NodeAt(map.root, st.top.node), st.top.index,
                              key, val, map.b)
    IN  insert_loop([map EXCEPT !.root = SetNode(@, st.top.node, ins.node)],
                    st.stack, ins)

\* stack_insert appending the pair to the leaf instead of inserting at top
stack_insert_at_end(map, st, key, val) ==
    LET leaf == NodeAt(map.root, st.top.node)
        ins == insert_as_leaf(leaf, len(leaf), key, val, map.b)
    IN  insert_loop([map EXCEPT !.length = @ + 1,
                                !.root = SetNode(@, st.top.node, ins.node)],
                    st.stack, ins)

\* SearchStack<Edge, Leaf>::insert
stack_insert(map, st, key, val) ==
    LET ins == insert_as_leaf(NodeAt(map.root, st.top.node), st.top.index,
                              key, val, map.b)
    IN  insert_loop([map EXCEPT !.length = @ + 1,
                                !.root = SetNode(@, st.top.node, ins.node)],
                    st.stack, ins)

\* SearchStack::insert, what the loop returns: inserted_ptr, the value slot
\* insert_as_leaf wrote, as the handle that designates it in the final tree.
\* ptr is the slot's index in its leaf and the leaf's path below the node the
\* loop is at: the node the popped handle was in (in = "left", found at node)
\* or the node split off it (in = "right"), which the next insert_as_internal,
\* or the root split, hangs right of the edge the other one is behind.
RECURSIVE inserted_ptr_loop(_, _, _, _, _)
inserted_ptr_loop(map, stack, insertion, node, ptr) ==
    IF insertion.fit THEN Handle(node \o ptr.path, ptr.index)
    ELSE IF stack = <<>>
    THEN Handle(<<IF ptr.in = "left" THEN 0 ELSE 1>> \o ptr.path, ptr.index)
    ELSE LET handle == Last(stack)
             ins == insert_as_internal(NodeAt(map.root, handle.node), handle.index,
                                       insertion.key, insertion.val,
                                       insertion.right, map.b)
             edge == IF ptr.in = "left" THEN ins.at ELSE ins.at + 1
         IN  inserted_ptr_loop(
                 [map EXCEPT !.root = SetNode(@, handle.node, ins.node)],
                 Front(stack), ins, handle.node,
                 [in |-> ins.side, path |-> <<edge>> \o ptr.path,
                  index |-> ptr.index])

\* SearchStack<Edge, Leaf>::insert, the reference it returns
inserted_ptr(map, st, key, val) ==
    LET ins == insert_as_leaf(NodeAt(map.root, st.top.node), st.top.index,
                              key, val, map.b)
    IN  inserted_ptr_loop([map EXCEPT !.root = SetNode(@, st.top.node, ins.node)],
                          st.stack, ins, st.top.node,
                          [in |-> ins.side, path |-> <<>>, index |-> ins.at])

\* into_leaf_loop swapping the keys and forgetting the values
RECURSIVE into_leaf_loop_keys_only(_, _, _, _)
into_leaf_loop_keys_only(map, stack, temp_node, top) ==
    LET node == NodeAt(map.root, temp_node)
    IN  IF is_leaf(node)
        THEN LET target == NodeAt(map.root, top.node)
                 root1 == SetNode(map.root, temp_node,
                              [node EXCEPT !.keys[1] = At(target.keys, top.index)])
                 target1 == NodeAt(root1, top.node)
                 root2 == SetNode(root1, top.node,
                              [target1 EXCEPT
                                  !.keys[top.index + 1] = At(node.keys, 0)])
             IN  [map |-> [map EXCEPT !.root = root2],
                  st |-> [stack |-> stack, top |-> Handle(temp_node, 0)]]
        ELSE into_leaf_loop_keys_only(map, Append(stack, Handle(temp_node, 0)),
                                      Append(temp_node, 0), top)

\* into_leaf_loop reaching the successor and forgetting the swap
RECURSIVE into_leaf_loop_no_swap(_, _, _, _)
into_leaf_loop_no_swap(map, stack, temp_node, top) ==
    IF is_leaf(NodeAt(map.root, temp_node))
    THEN [map |-> map, st |-> [stack |-> stack, top |-> Handle(temp_node, 0)]]
    ELSE into_leaf_loop_no_swap(map, Append(stack, Handle(temp_node, 0)),
                                Append(temp_node, 0), top)

\* SearchStack<KV, LeafOrInternal>::into_leaf, the walk into the smallest
\* subtree; at the leaf the pair at top and the leaf's first pair are swapped
RECURSIVE into_leaf_loop(_, _, _, _)
into_leaf_loop(map, stack, temp_node, top) ==
    LET node == NodeAt(map.root, temp_node)
    IN  IF is_leaf(node)
        THEN LET target == NodeAt(map.root, top.node)
                 root1 == SetNode(map.root, temp_node,
                              [node EXCEPT !.keys[1] = At(target.keys, top.index),
                                           !.vals[1] = At(target.vals, top.index)])
                 target1 == NodeAt(root1, top.node)
                 root2 == SetNode(root1, top.node,
                              [target1 EXCEPT
                                  !.keys[top.index + 1] = At(node.keys, 0),
                                  !.vals[top.index + 1] = At(node.vals, 0)])
             IN  [map |-> [map EXCEPT !.root = root2],
                  st |-> [stack |-> stack, top |-> Handle(temp_node, 0)]]
        ELSE into_leaf_loop(map, Append(stack, Handle(temp_node, 0)),
                            Append(temp_node, 0), top)

\* into_leaf walking into the right subtree without pushing the right edge
into_leaf_forget_push(map, st) ==
    IF is_leaf(NodeAt(map.root, st.top.node))
    THEN [map |-> map, st |-> st]
    ELSE LET right_handle == Handle(st.top.node, st.top.index + 1)
         IN  into_leaf_loop(map, st.stack,
                            Append(right_handle.node, right_handle.index), st.top)

\* into_leaf walking down from the edge left of the pair instead of right of it
into_leaf_left_edge(map, st) ==
    IF is_leaf(NodeAt(map.root, st.top.node))
    THEN [map |-> map, st |-> st]
    ELSE LET left_handle == Handle(st.top.node, st.top.index)
         IN  into_leaf_loop(map, Append(st.stack, left_handle),
                            Append(left_handle.node, left_handle.index), st.top)

into_leaf(map, st) ==
    IF is_leaf(NodeAt(map.root, st.top.node))
    THEN [map |-> map, st |-> st]
    ELSE LET right_handle == Handle(st.top.node, st.top.index + 1)
         IN  into_leaf_loop(map, Append(st.stack, right_handle),
                            Append(right_handle.node, right_handle.index), st.top)

\* remove_loop rebalancing every frame, whether its child is underfull or not
RECURSIVE remove_loop_every_frame(_, _, _)
remove_loop_every_frame(map, stack, underflow) ==
    IF stack = <<>>
    THEN IF len(map.root) = 0 /\ ~is_leaf(map.root)
         THEN [map EXCEPT !.depth = @ - 1, !.root = hoist_lone_child(@)]
         ELSE map
    ELSE LET handle == Last(stack)
             parent == handle_underflow(NodeAt(map.root, handle.node),
                                        handle.index, map.b)
         IN  remove_loop_every_frame(
                 [map EXCEPT !.root = SetNode(@, handle.node, parent)],
                 Front(stack), is_underfull(parent, map.b))

\* remove_loop returning at the first frame without handling the underflow
remove_loop_no_underflow(map, stack, underflow) ==
    IF stack = <<>>
    THEN IF len(map.root) = 0 /\ ~is_leaf(map.root)
         THEN [map EXCEPT !.depth = @ - 1, !.root = hoist_lone_child(@)]
         ELSE map
    ELSE map

\* remove_loop leaving an empty internal root in place: no hoist
RECURSIVE remove_loop_no_hoist(_, _, _)
remove_loop_no_hoist(map, stack, underflow) ==
    IF stack = <<>>
    THEN map
    ELSE IF underflow
    THEN LET handle == Last(stack)
             parent == handle_underflow(NodeAt(map.root, handle.node),
                                        handle.index, map.b)
         IN  remove_loop_no_hoist(
                 [map EXCEPT !.root = SetNode(@, handle.node, parent)],
                 Front(stack), is_underfull(parent, map.b))
    ELSE map

\* remove_loop hoisting the lone child without self.map.depth -= 1
RECURSIVE remove_loop_hoist_keep_depth(_, _, _)
remove_loop_hoist_keep_depth(map, stack, underflow) ==
    IF stack = <<>>
    THEN IF len(map.root) = 0 /\ ~is_leaf(map.root)
         THEN [map EXCEPT !.root = hoist_lone_child(@)]
         ELSE map
    ELSE IF underflow
    THEN LET handle == Last(stack)
             parent == handle_underflow(NodeAt(map.root, handle.node),
                                        handle.index, map.b)
         IN  remove_loop_hoist_keep_depth(
                 [map EXCEPT !.root = SetNode(@, handle.node, parent)],
                 Front(stack), is_underfull(parent, map.b))
    ELSE map

\* SearchStack<KV, Leaf>::remove_leaf, the loop popping the stack
RECURSIVE remove_loop(_, _, _)
remove_loop(map, stack, underflow) ==
    IF stack = <<>>
    THEN IF len(map.root) = 0 /\ ~is_leaf(map.root)
         THEN [map EXCEPT !.depth = @ - 1, !.root = hoist_lone_child(@)]
         ELSE map
    ELSE IF underflow
    THEN LET handle == Last(stack)
             parent == handle_underflow(NodeAt(map.root, handle.node),
                                        handle.index, map.b)
         IN  remove_loop([map EXCEPT !.root = SetNode(@, handle.node, parent)],
                         Front(stack), is_underfull(parent, map.b))
    ELSE map

\* one iteration of remove_leaf's loop that keeps the underflow flag it was given
remove_loop_step_stale_underflow(map, stack, underflow) ==
    IF stack = <<>>
    THEN [map |-> IF len(map.root) = 0 /\ ~is_leaf(map.root)
                  THEN [map EXCEPT !.depth = @ - 1, !.root = hoist_lone_child(@)]
                  ELSE map,
          stack |-> stack, underflow |-> underflow, done |-> TRUE]
    ELSE IF underflow
    THEN LET handle == Last(stack)
             parent == handle_underflow(NodeAt(map.root, handle.node),
                                        handle.index, map.b)
         IN  [map |-> [map EXCEPT !.root = SetNode(@, handle.node, parent)],
              stack |-> Front(stack), underflow |-> underflow, done |-> FALSE]
    ELSE [map |-> map, stack |-> Front(stack), underflow |-> underflow,
          done |-> TRUE]

\* one iteration of remove_leaf's loop: pop a frame, then return or rebalance it
remove_loop_step(map, stack, underflow) ==
    IF stack = <<>>
    THEN [map |-> IF len(map.root) = 0 /\ ~is_leaf(map.root)
                  THEN [map EXCEPT !.depth = @ - 1, !.root = hoist_lone_child(@)]
                  ELSE map,
          stack |-> stack, underflow |-> underflow, done |-> TRUE]
    ELSE IF underflow
    THEN LET handle == Last(stack)
             parent == handle_underflow(NodeAt(map.root, handle.node),
                                        handle.index, map.b)
         IN  [map |-> [map EXCEPT !.root = SetNode(@, handle.node, parent)],
              stack |-> Front(stack), underflow |-> is_underfull(parent, map.b),
              done |-> FALSE]
    ELSE [map |-> map, stack |-> Front(stack), underflow |-> underflow,
          done |-> TRUE]

\* remove_leaf up to its loop: the pair leaves the leaf, the length drops
remove_leaf_enter(map, st) ==
    LET node == NodeAt(map.root, st.top.node)
        node1 == remove_as_leaf(node, st.top.index)
    IN  [map |-> [map EXCEPT !.length = @ - 1,
                             !.root = SetNode(@, st.top.node, node1)],
         stack |-> st.stack,
         underflow |-> is_underfull(node1, map.b),
         ret |-> At(node.vals, st.top.index)]

\* remove_leaf forgetting self.map.length -= 1
remove_leaf_keep_length(map, st) ==
    LET node == NodeAt(map.root, st.top.node)
        node1 == remove_as_leaf(node, st.top.index)
    IN  [map |-> remove_loop([map EXCEPT !.root = SetNode(@, st.top.node, node1)],
                             st.stack, is_underfull(node1, map.b)),
         ret |-> At(node.vals, st.top.index)]

remove_leaf(map, st) ==
    LET node == NodeAt(map.root, st.top.node)
        node1 == remove_as_leaf(node, st.top.index)
    IN  [map |-> remove_loop([map EXCEPT !.length = @ - 1,
                                         !.root = SetNode(@, st.top.node, node1)],
                             st.stack, is_underfull(node1, map.b)),
         ret |-> At(node.vals, st.top.index)]

\* SearchStack<KV, LeafOrInternal>::remove
stack_remove(map, st) ==
    LET l == into_leaf(map, st) IN remove_leaf(l.map, l.st)

\* insert_search returning on Found without swapping the values
RECURSIVE insert_search_no_swap(_, _, _, _)
insert_search_no_swap(map, stack, key, value) ==
    LET node == NodeAt(map.root, stack.next)
        r == search(node, key)
        handle == Handle(stack.next, r.index)
    IN  IF r.found
        THEN [map |-> map, ret |-> value]
        ELSE IF is_leaf(node)
        THEN [map |-> stack_insert(map, seal(stack, handle), key, value),
              ret |-> None]
        ELSE insert_search_no_swap(map, push(stack, handle), key, value)

\* insert_search going down at a match in an internal node: only leaves match
RECURSIVE insert_search_leaf_match(_, _, _, _)
insert_search_leaf_match(map, stack, key, value) ==
    LET node == NodeAt(map.root, stack.next)
        r == search(node, key)
        handle == Handle(stack.next, r.index)
    IN  IF is_leaf(node)
        THEN IF r.found
             THEN [map |-> [map EXCEPT !.root = SetNode(@, stack.next,
                                     [node EXCEPT !.vals[r.index + 1] = value])],
                   ret |-> At(node.vals, r.index)]
             ELSE [map |-> stack_insert(map, seal(stack, handle), key, value),
                   ret |-> None]
        ELSE insert_search_leaf_match(map, push(stack, handle), key, value)

\* BTreeMap::insert, the loop over the partial search stack
RECURSIVE insert_search(_, _, _, _)
insert_search(map, stack, key, value) ==
    LET node == NodeAt(map.root, stack.next)
        r == search(node, key)
        handle == Handle(stack.next, r.index)
    IN  IF r.found
        THEN [map |-> [map EXCEPT !.root = SetNode(@, stack.next,
                                     [node EXCEPT !.vals[r.index + 1] = value])],
              ret |-> At(node.vals, r.index)]
        ELSE IF is_leaf(node)
        THEN [map |-> stack_insert(map, seal(stack, handle), key, value),
              ret |-> None]
        ELSE insert_search(map, push(stack, handle), key, value)
insert(map, key, value) ==
    insert_search(map, PartialSearchStack_new(map), key, value)

\* remove_search taking GoDown in a leaf for Found: it removes the pair at the edge
RECURSIVE remove_search_at_edge(_, _, _)
remove_search_at_edge(map, stack, key) ==
    LET node == NodeAt(map.root, stack.next)
        r == search(node, key)
        handle == Handle(stack.next, r.index)
    IN  IF r.found THEN stack_remove(map, seal(stack, handle))
        ELSE IF is_leaf(node)
        THEN IF r.index < len(node) THEN stack_remove(map, seal(stack, handle))
             ELSE [map |-> map, ret |-> None]
        ELSE remove_search_at_edge(map, push(stack, handle), key)

\* BTreeMap::insert, the search alone: the sealed stack at the key or at the
\* leaf edge where it belongs
RECURSIVE insert_find(_, _, _)
insert_find(map, stack, key) ==
    LET node == NodeAt(map.root, stack.next)
        r == search(node, key)
        handle == Handle(stack.next, r.index)
    IN  IF r.found THEN [found |-> TRUE, st |-> seal(stack, handle)]
        ELSE IF is_leaf(node) THEN [found |-> FALSE, st |-> seal(stack, handle)]
        ELSE insert_find(map, push(stack, handle), key)

\* BTreeMap::remove, the search alone: the sealed stack at the key, if found
RECURSIVE remove_find(_, _, _)
remove_find(map, stack, key) ==
    LET node == NodeAt(map.root, stack.next)
        r == search(node, key)
        handle == Handle(stack.next, r.index)
    IN  IF r.found THEN [found |-> TRUE, st |-> seal(stack, handle)]
        ELSE IF is_leaf(node) THEN [found |-> FALSE, st |-> seal(stack, handle)]
        ELSE remove_find(map, push(stack, handle), key)

\* BTreeMap::remove, the loop over the partial search stack
RECURSIVE remove_search(_, _, _)
remove_search(map, stack, key) ==
    LET node == NodeAt(map.root, stack.next)
        r == search(node, key)
        handle == Handle(stack.next, r.index)
    IN  IF r.found THEN stack_remove(map, seal(stack, handle))
        ELSE IF is_leaf(node) THEN [map |-> map, ret |-> None]
        ELSE remove_search(map, push(stack, handle), key)
remove(map, key) == remove_search(map, PartialSearchStack_new(map), key)

\* Entry: Occupied holds a stack sealed at the pair, Vacant a stack sealed at
\* the leaf edge and the key
Occupied(st) == [kind |-> "occupied", stack |-> st.stack, top |-> st.top, key |-> None]
Vacant(st, key) == [kind |-> "vacant", stack |-> st.stack, top |-> st.top, key |-> key]

\* entry_search going down at a match in an internal node: only leaves match
RECURSIVE entry_search_leaf_match(_, _, _)
entry_search_leaf_match(map, stack, key) ==
    LET node == NodeAt(map.root, stack.next)
        r == search(node, key)
        handle == Handle(stack.next, r.index)
    IN  IF is_leaf(node)
        THEN IF r.found THEN Occupied(seal(stack, handle))
             ELSE Vacant(seal(stack, handle), key)
        ELSE entry_search_leaf_match(map, push(stack, handle), key)

\* BTreeMap::entry, the loop over the partial search stack
RECURSIVE entry_search(_, _, _)
entry_search(map, stack, key) ==
    LET node == NodeAt(map.root, stack.next)
        r == search(node, key)
        handle == Handle(stack.next, r.index)
    IN  IF r.found THEN Occupied(seal(stack, handle))
        ELSE IF is_leaf(node) THEN Vacant(seal(stack, handle), key)
        ELSE entry_search(map, push(stack, handle), key)
entry(map, key) == entry_search(map, PartialSearchStack_new(map), key)

\* SearchStack::peek: the value the stack points to
peek(map, st) == At(NodeAt(map.root, st.top.node).vals, st.top.index)
\* the key of the pair the stack points to
peek_key(map, st) == At(NodeAt(map.root, st.top.node).keys, st.top.index)

\* OccupiedEntry::insert returning the old value without storing the new one
OccupiedEntry_insert_no_store(map, st, value) ==
    [map |-> map, ret |-> peek(map, st)]

\* OccupiedEntry::insert: the value is swapped with the one at the top
OccupiedEntry_insert(map, st, value) ==
    LET node == NodeAt(map.root, st.top.node)
    IN  [map |-> [map EXCEPT !.root = SetNode(@, st.top.node,
                         [node EXCEPT !.vals[st.top.index + 1] = value])],
         ret |-> peek(map, st)]

\* OccupiedEntry::remove removing the pair where it is, without into_leaf
OccupiedEntry_remove_in_place(map, st) == remove_leaf(map, st)

\* OccupiedEntry::remove
OccupiedEntry_remove(map, st) == stack_remove(map, st)

\* VacantEntry::insert returning the slot at the edge the stack was sealed at
VacantEntry_insert_ptr_at_edge(map, st, key, value) ==
    [map |-> stack_insert(map, st, key, value), ret |-> st.top]

\* VacantEntry::insert: the pair is inserted at the top of the stack; ret is
\* the reference to the value, as the handle of its slot
VacantEntry_insert(map, st, key, value) ==
    [map |-> stack_insert(map, st, key, value),
     ret |-> inserted_ptr(map, st, key, value)]

\* a reference into the map: the value slot the handle designates
Ref(handle) == [kind |-> "ref", stack |-> <<>>, top |-> handle, key |-> None]

\* Extend::extend: every pair <<k, v>> of the sequence is inserted, in order
RECURSIVE extend(_, _)
extend(map, pairs) ==
    IF pairs = <<>> THEN map
    ELSE extend(insert(map, Head(pairs)[1], Head(pairs)[2]).map, Tail(pairs))

\* clear swapping in BTreeMap::new() instead of with_b(b)
clear_new(map) == new

\* BTreeMap::clear: the map is replaced by with_b(b), the old one is drained
clear(map) == with_b(map.b)

\* ------------------------------------------------------- map.rs: AbsIter
\* TraversalItem: Elem(k, v) or Edge(node)
Elem(k, v) == [key |-> k, val |-> v]
Edge(node) == [edge |-> node]
is_edge(item) == "edge" \in DOMAIN item

\* Traverse::traverse (Node::iter): what the node's traversal has left to yield,
\* Edge, Elem, Edge, ..., Edge for an internal node, Elem, Elem, ... for a leaf
RECURSIVE items_from(_, _)
items_from(node, i) ==
    IF i >= len(node)
    THEN IF is_leaf(node) THEN <<>> ELSE <<Edge(At(node.edges, i))>>
    ELSE (IF is_leaf(node) THEN <<>> ELSE <<Edge(At(node.edges, i))>>)
         \o <<Elem(At(node.keys, i), At(node.vals, i))>>
         \o items_from(node, i + 1)
traverse(node) == items_from(node, 0)

\* BTreeMap::iter (iter_mut and into_iter build the same AbsIter)
iter(map) ==
    [lca |-> traverse(map.root), left |-> <<>>, right |-> <<>>,
     size |-> map.length]

\* AbsIter::next taking the back of right, not its front, as the new lca
RECURSIVE AbsIter_next_pop_back(_)
AbsIter_next_pop_back(it) ==
    IF it.left = <<>>
    THEN IF it.lca = <<>>
         THEN IF it.right = <<>>
              THEN [it |-> it, ret |-> <<>>]
              ELSE AbsIter_next_pop_back([it EXCEPT !.lca = Last(it.right),
                                                    !.right = Front(it.right)])
         ELSE LET item == Head(it.lca)
                  it1 == [it EXCEPT !.lca = Tail(@)]
              IN  IF is_edge(item)
                  THEN AbsIter_next_pop_back([it1 EXCEPT
                                        !.left = Append(@, traverse(item.edge))])
                  ELSE [it |-> [it1 EXCEPT !.size = @ - 1],
                        ret |-> <<item.key, item.val>>]
    ELSE LET top == Last(it.left)
         IN  IF top = <<>>
             THEN AbsIter_next_pop_back([it EXCEPT !.left = Front(@)])
             ELSE LET item == Head(top)
                      it1 == [it EXCEPT !.left[Len(it.left)] = Tail(top)]
                  IN  IF is_edge(item)
                      THEN AbsIter_next_pop_back([it1 EXCEPT
                                        !.left = Append(@, traverse(item.edge))])
                      ELSE [it |-> [it1 EXCEPT !.size = @ - 1],
                            ret |-> <<item.key, item.val>>]

\* AbsIter::next dropping the edges the lca yields instead of pushing them
RECURSIVE AbsIter_next_skip_edge(_)
AbsIter_next_skip_edge(it) ==
    IF it.left = <<>>
    THEN IF it.lca = <<>>
         THEN IF it.right = <<>>
              THEN [it |-> it, ret |-> <<>>]
              ELSE AbsIter_next_skip_edge([it EXCEPT !.lca = Head(it.right),
                                                     !.right = Tail(it.right)])
         ELSE LET item == Head(it.lca)
                  it1 == [it EXCEPT !.lca = Tail(@)]
              IN  IF is_edge(item)
                  THEN AbsIter_next_skip_edge(it1)
                  ELSE [it |-> [it1 EXCEPT !.size = @ - 1],
                        ret |-> <<item.key, item.val>>]
    ELSE [it |-> it, ret |-> <<>>]

\* AbsIter::next: the loop, until an Elem is yielded or both paths are exhausted;
\* ret is <<>> for None and <<k, v>> for Some((k, v))
RECURSIVE AbsIter_next(_)
AbsIter_next(it) ==
    IF it.left = <<>>
    THEN IF it.lca = <<>>
         THEN IF it.right = <<>>
              THEN [it |-> it, ret |-> <<>>]
              ELSE AbsIter_next([it EXCEPT !.lca = Head(it.right),
                                           !.right = Tail(it.right)])
         ELSE LET item == Head(it.lca)
                  it1 == [it EXCEPT !.lca = Tail(@)]
              IN  IF is_edge(item)
                  THEN AbsIter_next([it1 EXCEPT
                                        !.left = Append(@, traverse(item.edge))])
                  ELSE [it |-> [it1 EXCEPT !.size = @ - 1],
                        ret |-> <<item.key, item.val>>]
    ELSE LET top == Last(it.left)
         IN  IF top = <<>>
             THEN AbsIter_next([it EXCEPT !.left = Front(@)])
             ELSE LET item == Head(top)
                      it1 == [it EXCEPT !.left[Len(it.left)] = Tail(top)]
                  IN  IF is_edge(item)
                      THEN AbsIter_next([it1 EXCEPT
                                        !.left = Append(@, traverse(item.edge))])
                      ELSE [it |-> [it1 EXCEPT !.size = @ - 1],
                        ret |-> <<item.key, item.val>>]

\* AbsIter::next_back calling next instead of next_back on the iterator at
\* the back of right
RECURSIVE AbsIter_next_back_child_forward(_)
AbsIter_next_back_child_forward(it) ==
    IF it.right = <<>>
    THEN IF it.lca = <<>>
         THEN IF it.left = <<>>
              THEN [it |-> it, ret |-> <<>>]
              ELSE AbsIter_next_back_child_forward([it EXCEPT !.lca = Head(it.left),
                                   !.left = Tail(it.left)])
         ELSE LET item == Last(it.lca)
                  it1 == [it EXCEPT !.lca = Front(@)]
              IN  IF is_edge(item)
                  THEN AbsIter_next_back_child_forward([it1 EXCEPT
                                !.right = Append(@, traverse(item.edge))])
                  ELSE [it |-> [it1 EXCEPT !.size = @ - 1],
                        ret |-> <<item.key, item.val>>]
    ELSE LET top == Last(it.right)
         IN  IF top = <<>>
             THEN AbsIter_next_back_child_forward([it EXCEPT !.right = Front(@)])
             ELSE LET item == Head(top)
                      it1 == [it EXCEPT !.right[Len(it.right)] = Tail(top)]
                  IN  IF is_edge(item)
                      THEN AbsIter_next_back_child_forward([it1 EXCEPT
                                    !.right = Append(@, traverse(item.edge))])
                      ELSE [it |-> [it1 EXCEPT !.size = @ - 1],
                            ret |-> <<item.key, item.val>>]

\* AbsIter::next_back, the mirror of next: the loop, until an Elem is yielded
\* or both paths are exhausted
RECURSIVE AbsIter_next_back(_)
AbsIter_next_back(it) ==
    IF it.right = <<>>
    THEN IF it.lca = <<>>
         THEN IF it.left = <<>>
              THEN [it |-> it, ret |-> <<>>]
              ELSE AbsIter_next_back([it EXCEPT !.lca = Head(it.left),
                                   !.left = Tail(it.left)])
         ELSE LET item == Last(it.lca)
                  it1 == [it EXCEPT !.lca = Front(@)]
              IN  IF is_edge(item)
                  THEN AbsIter_next_back([it1 EXCEPT
                                !.right = Append(@, traverse(item.edge))])
                  ELSE [it |-> [it1 EXCEPT !.size = @ - 1],
                        ret |-> <<item.key, item.val>>]
    ELSE LET top == Last(it.right)
         IN  IF top = <<>>
             THEN AbsIter_next_back([it EXCEPT !.right = Front(@)])
             ELSE LET item == Last(top)
                      it1 == [it EXCEPT !.right[Len(it.right)] = Front(top)]
                  IN  IF is_edge(item)
                      THEN AbsIter_next_back([it1 EXCEPT
                                    !.right = Append(@, traverse(item.edge))])
                      ELSE [it |-> [it1 EXCEPT !.size = @ - 1],
                            ret |-> <<item.key, item.val>>]

\* size_hint with the lower bound iterators have by default
size_hint_lower_zero(it) == <<0, it.size>>

\* AbsIter::size_hint
size_hint(it) == <<it.size, it.size>>

\* ------------------------------------------------------------------ state
VARIABLES
    root,      \* BTreeMap.root
    length,    \* BTreeMap.length
    depth,     \* BTreeMap.depth
    b,         \* BTreeMap.b
    last,      \* the call that has just returned, [op, key, val, ret], or Idle
    dict,      \* the abstract dictionary the same calls were applied to
    dict_ret,  \* what the last call returned on the abstract dictionary
    it,        \* the live iterator over the map (an AbsIter), or NoIter
    out,       \* the pairs the live iterator's next has yielded so far
    back,      \* the pairs the live iterator's next_back has yielded so far
    ent,       \* the live Entry, or the reference VacantEntry::insert returned, or NoEntry
    rl         \* the loop of a remove_leaf in progress, or NoLoop

vars == <<root, length, depth, b, last, dict, dict_ret, it, out, back, ent,
          rl>>

\* the BTreeMap the variables hold (&mut self)
self == [root |-> root, length |-> length, depth |-> depth, b |-> b]

Store(map) ==
    /\ root' = map.root
    /\ length' = map.length
    /\ depth' = map.depth
    /\ b' = map.b

Call(op, key, val, ret) == [op |-> op, key |-> key, val |-> val, ret |-> ret]
\* no result is held: the caller is between two calls
Idle == Call("idle", None, None, None)
NoIter == [lca |-> <<>>, left |-> <<>>, right |-> <<>>, size |-> -1]
\* no remove_leaf is in progress
NoLoop == [running |-> FALSE, stack |-> <<>>, underflow |-> FALSE,
           key |-> None, ret |-> None]
\* no Entry and no reference into the map is alive
NoEntry == [kind |-> "none", stack |-> <<>>, top |-> Handle(<<>>, 0), key |-> None]

EmptyDict == [k \in Keys |-> None]

\* what a call that panicked returns: nothing, the thread unwinds
Aborted == -1
\* the constructor panicked: no map, and no call can follow
Panicked == last.op = "with_b" /\ last.ret = Aborted

Init ==
    /\ \E B \in 2..MaxB : /\ root = with_b(B).root
                          /\ length = with_b(B).length
                          /\ depth = with_b(B).depth
                          /\ b = with_b(B).b
    /\ last = Call("with_b", None, None, None)
    /\ dict = EmptyDict
    /\ dict_ret = None
    /\ it = NoIter
    /\ out = <<>>
    /\ back = <<>>
    /\ ent = NoEntry
    /\ rl = NoLoop

\* map.insert(key, value)
Insert(key, value) ==
    /\ last = Idle
    /\ LET r == insert(self, key, value)
       IN  /\ Store(r.map)
           /\ last' = Call("insert", key, value, r.ret)
    /\ dict' = [dict EXCEPT ![key] = value]
    /\ dict_ret' = dict[key]
    /\ UNCHANGED <<it, out, back, ent, rl>>

\* map.remove(&key)
Remove(key) ==
    /\ last = Idle
    /\ LET r == remove(self, key)
       IN  /\ Store(r.map)
           /\ last' = Call("remove", key, None, r.ret)
    /\ dict' = [dict EXCEPT ![key] = None]
    /\ dict_ret' = dict[key]
    /\ UNCHANGED <<it, out, back, ent, rl>>

\* map.clear()
Clear ==
    /\ last = Idle
    /\ Store(clear(self))
    /\ last' = Call("clear", None, None, None)
    /\ dict' = EmptyDict
    /\ dict_ret' = None
    /\ UNCHANGED <<it, out, back, ent, rl>>

\* the caller drops what the call returned, and with it any iterator
Drop ==
    /\ last # Idle
    /\ ~Panicked
    /\ last' = Idle
    /\ dict_ret' = None
    /\ it' = NoIter
    /\ out' = <<>>
    /\ back' = <<>>
    /\ ent' = NoEntry
    /\ UNCHANGED <<root, length, depth, b, dict, rl>>

\* map.iter(): the iterator borrows the map until it is dropped
Iter ==
    /\ last = Idle
    /\ it' = iter(self)
    /\ out' = <<>>
    /\ back' = <<>>
    /\ last' = Call("iter", None, None, None)
    /\ UNCHANGED <<root, length, depth, b, dict, dict_ret, ent, rl>>

\* iterator.next()
IterNext ==
    /\ it # NoIter
    /\ LET r == AbsIter_next(it)
       IN  /\ it' = r.it
           /\ IF r.ret = <<>>
              THEN /\ last' = Call("next", None, None, None)
                   /\ out' = out
              ELSE /\ last' = Call("next", r.ret[1], None, r.ret[2])
                   /\ out' = Append(out, r.ret)
    /\ UNCHANGED <<root, length, depth, b, dict, dict_ret, back, ent, rl>>

\* iterator.next_back()
IterNextBack ==
    /\ it # NoIter
    /\ LET r == AbsIter_next_back(it)
       IN  /\ it' = r.it
           /\ IF r.ret = <<>>
              THEN /\ last' = Call("next_back", None, None, None)
                   /\ back' = back
              ELSE /\ last' = Call("next_back", r.ret[1], None, r.ret[2])
                   /\ back' = Append(back, r.ret)
    /\ UNCHANGED <<root, length, depth, b, dict, dict_ret, out, ent, rl>>

\* map.entry(key): the entry borrows the map until it is dropped or consumed
GetEntry(key) ==
    /\ last = Idle
    /\ ent' = entry(self, key)
    /\ last' = Call("entry", key, None, None)
    /\ UNCHANGED <<root, length, depth, b, dict, dict_ret, it, out, back, rl>>

\* occupied.insert(value): takes &mut self, the entry stays alive
OccupiedInsert(value) ==
    /\ ent.kind = "occupied"
    /\ LET key == peek_key(self, ent)
           r == OccupiedEntry_insert(self, ent, value)
       IN  /\ value \in ValsOf(key)
           /\ Store(r.map)
           /\ last' = Call("occupied_insert", key, value, r.ret)
           /\ dict' = [dict EXCEPT ![key] = value]
           /\ dict_ret' = dict[key]
    /\ UNCHANGED <<it, out, back, ent, rl>>

\* occupied.remove(): consumes the entry
OccupiedRemove ==
    /\ ent.kind = "occupied"
    /\ LET key == peek_key(self, ent)
           r == OccupiedEntry_remove(self, ent)
       IN  /\ Store(r.map)
           /\ last' = Call("occupied_remove", key, None, r.ret)
           /\ dict' = [dict EXCEPT ![key] = None]
           /\ dict_ret' = dict[key]
    /\ ent' = NoEntry
    /\ UNCHANGED <<it, out, back, rl>>

\* vacant.insert(value): consumes the entry, the reference it returns lives on
VacantInsert(value) ==
    /\ ent.kind = "vacant"
    /\ value \in ValsOf(ent.key)
    /\ LET r == VacantEntry_insert(self, ent, ent.key, value)
       IN  /\ Store(r.map)
           /\ ent' = Ref(r.ret)
    /\ last' = Call("vacant_insert", ent.key, value, None)
    /\ dict' = [dict EXCEPT ![ent.key] = value]
    /\ dict_ret' = None
    /\ UNCHANGED <<it, out, back, rl>>

\* map.get(&key): takes &self
Get(key) ==
    /\ last = Idle
    /\ last' = Call("get", key, None, get(self, key))
    /\ UNCHANGED <<root, length, depth, b, dict, dict_ret, it, out, back, ent, rl>>

\* map.contains_key(&key): takes &self
ContainsKey(key) ==
    /\ last = Idle
    /\ last' = Call("contains_key", key, None, contains_key(self, key))
    /\ UNCHANGED <<root, length, depth, b, dict, dict_ret, it, out, back, ent, rl>>

Next ==
    \/ \E key \in Keys : \E value \in ValsOf(key) : Insert(key, value)
    \/ \E key \in Keys : Remove(key)
    \/ Clear
    \/ Drop

\* the map under insert, remove and clear
Spec == Init /\ [][Next]_vars

NextIter ==
    \/ Next
    \/ Iter
    \/ IterNext

\* the map under the same calls, and iterators over it
IterSpec == Init /\ [][NextIter]_vars

\* ------------------------------------------------ what the claims observe
\* the nodes of the subtree below node, node itself excluded
RECURSIVE Descendants(_)
Descendants(node) ==
    UNION {{At(node.edges, i)} \cup Descendants(At(node.edges, i)) :
           i \in 0..(Len(node.edges) - 1)}
NonRootNodes == Descendants(root)
AllNodes == {root} \cup NonRootNodes

\* the depths of the leaves below node, node being at depth d (the root at 1)
RECURSIVE LeafDepths(_, _)
LeafDepths(node, d) ==
    IF is_leaf(node) THEN {d}
    ELSE UNION {LeafDepths(At(node.edges, i), d + 1) :
                i \in 0..(Len(node.edges) - 1)}

\* the number of key-value pairs stored in the subtree of node
RECURSIVE CountPairs(_)
CountPairs(node) ==
    IF is_leaf(node) THEN len(node)
    ELSE LET below[i \in 0..Len(node.edges)] ==
                 IF i = 0 THEN 0
                 ELSE below[i - 1] + CountPairs(node.edges[i])
         IN  len(node) + below[Len(node.edges)]

StrictlyIncreasing(s) == \A i \in 1..(Len(s) - 1) : s[i] < s[i + 1]

\* the bindings of the abstract dictionary, in ascending key order
RECURSIVE DictFrom(_)
DictFrom(k) ==
    IF k > MaxKey THEN <<>>
    ELSE (IF dict[k] # None THEN <<<<k, dict[k]>>>> ELSE <<>>) \o DictFrom(k + 1)
DictSeq == DictFrom(1)
DictSize == Cardinality({k \in Keys : dict[k] # None})

\* this step is a call of op on the map
NextRev ==
    \/ Next
    \/ Iter
    \/ IterNextBack

\* the map under the same calls, and iterators over it run from the back
RevSpec == Init /\ [][NextRev]_vars

\* the pairs (1, 11), ..., (n, 10n+1), ascending or descending
Ascending(n) == [i \in 1..n |-> <<i, 10 * i + 1>>]
Descending(n) == [i \in 1..n |-> <<n + 1 - i, 10 * (n + 1 - i) + 1>>]

\* a map with_b(B) extended with n pairs, in ascending or in descending order
InitDeq ==
    /\ \E B \in 2..MaxB : \E n \in 0..MaxKey :
       \E pairs \in {Ascending(n), Descending(n)} :
           /\ root = extend(with_b(B), pairs).root
           /\ length = extend(with_b(B), pairs).length
           /\ depth = extend(with_b(B), pairs).depth
           /\ b = B
           /\ dict = [k \in Keys |-> IF k <= n THEN 10 * k + 1 ELSE None]
    /\ last = Call("extend", None, None, None)
    /\ dict_ret = None
    /\ it = NoIter
    /\ out = <<>>
    /\ back = <<>>
    /\ ent = NoEntry
    /\ rl = NoLoop

NextDeq ==
    \/ Drop
    \/ Iter
    \/ IterNext
    \/ IterNextBack

\* iterators over an extended map, run from both ends in any interleaving
DeqSpec == InitDeq /\ [][NextDeq]_vars

AllVals == UNION {ValsOf(key) : key \in Keys}

NextEntry ==
    \/ Next
    \/ \E key \in Keys : GetEntry(key)
    \/ \E value \in AllVals : OccupiedInsert(value)
    \/ OccupiedRemove
    \/ \E value \in AllVals : VacantInsert(value)

\* the map under the same calls and the entry API
EntrySpec == Init /\ [][NextEntry]_vars

NextLookup ==
    \/ Next
    \/ \E key \in Keys : Get(key)
    \/ \E key \in Keys : ContainsKey(key)

\* the map under the same calls and lookups
LookupSpec == Init /\ [][NextLookup]_vars

\* BTreeMap::new(), or BTreeMap::with_b(B) for any B, legal or not
InitNew ==
    /\ \/ /\ root = new.root
          /\ length = new.length
          /\ depth = new.depth
          /\ b = new.b
          /\ last = Call("new", None, None, None)
       \/ \E B \in 0..MaxB :
          /\ root = with_b(B).root
          /\ length = with_b(B).length
          /\ depth = with_b(B).depth
          /\ b = with_b(B).b
          /\ last = Call("with_b", None, B,
                         IF with_b(B) = NoMap THEN Aborted ELSE None)
    /\ dict = EmptyDict
    /\ dict_ret = None
    /\ it = NoIter
    /\ out = <<>>
    /\ back = <<>>
    /\ ent = NoEntry
    /\ rl = NoLoop

\* the map from either constructor on, under insert, remove and clear
NewSpec == InitNew /\ [][Next]_vars

\* the next key of an ascending run of inserts: the keys below it are bound,
\* no other is
AscInsert ==
    \E key \in Keys :
        /\ \A k \in Keys : (dict[k] # None) <=> (k < key)
        /\ Insert(key, 10 * key + 1)

\* the next key of an ascending run of removes: the smallest key bound
AscRemove ==
    \E key \in Keys :
        /\ dict[key] # None
        /\ \A k \in Keys : k < key => dict[k] = None
        /\ Remove(key)

NextAsc ==
    \/ AscInsert
    \/ AscRemove
    \/ Drop

\* keys 1..n inserted in ascending order into an empty map, then removed in
\* ascending order, for every n up to MaxKey
AscSpec == Init /\ [][NextAsc]_vars

\* map.remove(&key) up to the loop of remove_leaf: the search, into_leaf and
\* the removal from the leaf; a key that is not found returns None at once
RemoveLeafEnter(key) ==
    /\ last = Idle
    /\ ~rl.running
    /\ LET f == remove_find(self, PartialSearchStack_new(self), key)
           l == into_leaf(self, f.st)
           e == remove_leaf_enter(l.map, l.st)
       IN  IF f.found
           THEN /\ Store(e.map)
                /\ rl' = [running |-> TRUE, stack |-> e.stack,
                          underflow |-> e.underflow, key |-> key, ret |-> e.ret]
                /\ UNCHANGED <<last, dict, dict_ret>>
           ELSE /\ last' = Call("remove", key, None, None)
                /\ dict_ret' = dict[key]
                /\ UNCHANGED <<root, length, depth, b, dict, rl>>
    /\ UNCHANGED <<it, out, back, ent>>

\* one iteration of the loop of remove_leaf; the last one returns the value
RemoveLeafStep ==
    /\ rl.running
    /\ LET s == remove_loop_step(self, rl.stack, rl.underflow)
       IN  /\ Store(s.map)
           /\ IF s.done
              THEN /\ rl' = NoLoop
                   /\ last' = Call("remove", rl.key, None, rl.ret)
                   /\ dict' = [dict EXCEPT ![rl.key] = None]
                   /\ dict_ret' = dict[rl.key]
              ELSE /\ rl' = [rl EXCEPT !.stack = s.stack,
                                       !.underflow = s.underflow]
                   /\ UNCHANGED <<last, dict, dict_ret>>
    /\ UNCHANGED <<it, out, back, ent>>

NextStep ==
    \/ Drop
    \/ \E key \in Keys : RemoveLeafEnter(key)
    \/ RemoveLeafStep

\* removals run one loop iteration at a time from extended maps; the loop is
\* sequential code, so an enabled iteration is eventually executed
StepSpec == InitDeq /\ [][NextStep]_vars /\ WF_vars(RemoveLeafStep)

NextShrink ==
    \/ Drop
    \/ \E key \in Keys : Remove(key)

\* removals, in any order, from maps built by extend from ascending and from
\* descending pairs
ShrinkSpec == InitDeq /\ [][NextShrink]_vars

NextGrow ==
    \/ Drop
    \/ \E key \in Keys : \E value \in ValsOf(key) : Insert(key, value)

\* insertions only, in any order: every tree here was built by Fit and Split
GrowSpec == Init /\ [][NextGrow]_vars

\* all keys stored in the subtree of node
RECURSIVE SubtreeKeys(_)
SubtreeKeys(node) ==
    {node.keys[i] : i \in 1..len(node)}
    \cup UNION {SubtreeKeys(node.edges[i]) : i \in 1..Len(node.edges)}

Calls(op) == last = Idle /\ last'.op = op
\* the live iterator's last next returned None
Exhausted == it # NoIter /\ last.op = "next" /\ last.ret = None

\* the live iterator's last next_back returned None
ExhaustedBack == it # NoIter /\ last.op = "next_back" /\ last.ret = None

\* the pairs an iterator yields when next is called until it returns None
RECURSIVE Drain(_)
Drain(i) ==
    LET r == AbsIter_next(i)
    IN  IF r.ret = <<>> THEN <<>> ELSE <<r.ret>> \o Drain(r.it)
\* the forward sequence of a map
Forward(map) == Drain(iter(map))
Reverse(s) == [i \in 1..Len(s) |-> s[Len(s) + 1 - i]]
StrictlyDecreasing(s) == \A i \in 1..(Len(s) - 1) : s[i] > s[i + 1]

\* a second and a third map of the same b, built by inserting the stored
\* pairs (DictSeq) in ascending and in descending key order
BuiltAscending == extend(with_b(b), DictSeq)
BuiltDescending == extend(with_b(b), Reverse(DictSeq))

\* path leads from node to a node of its subtree
RECURSIVE ValidPath(_, _)
ValidPath(node, path) ==
    \/ path = <<>>
    \/ /\ Head(path) < Len(node.edges)
       /\ ValidPath(At(node.edges, Head(path)), Tail(path))

\* the map holds exactly the keys 1..n: in AscSpec, n ascending inserts into
\* an empty map built it
BuiltFrom1To(n) == \A k \in Keys : (dict[k] # None) <=> (k <= n)

\* the search for key ends at a leaf edge and every node on the way down from
\* node is full: an insert of key splits them all, node included
RECURSIVE PathFull(_, _, _)
PathFull(node, key, B) ==
    /\ is_full(node, B)
    /\ ~search(node, key).found
    /\ \/ is_leaf(node)
       \/ PathFull(At(node.edges, search(node, key).index), key, B)
KeysOf(node) == {node.keys[i] : i \in 1..len(node)}

\* ------------------------------------------------------------------ claims

\* C1: applied to the same calls of insert, remove and clear, the map and an
\* abstract dictionary return the same results, and after each call get(k)
\* is the dictionary's binding of k, for every k, and len() its size.
C1_Refinement ==
    /\ \A k \in Keys : get(self, k) = dict[k]
    /\ length = DictSize
    /\ last.op \in {"insert", "remove", "clear"} => last.ret = dict_ret
\* a remove that returned a value, on a tree three levels deep
C1_Witness == last.op = "remove" /\ last.ret # None /\ depth = 3

\* C2: insert(k, v) of a key the map does not contain returns None and adds
\* exactly 1 to len(); insert of a contained key leaves len() alone; in both
\* cases get(k) is v afterwards.
C2_InsertNew ==
    [][Calls("insert") =>
        /\ get(self', last'.key) = last'.val
        /\ IF contains_key(self, last'.key)
           THEN length' = length
           ELSE last'.ret = None /\ length' = length + 1]_vars
\* an insert of a new key that filled the map up to MaxKey pairs
C2_Witness == last.op = "insert" /\ last.ret = None /\ length = MaxKey

\* C3: insert(k, v2) where k is bound to v1 returns v1, leaves get(k) = v2 and
\* len() unchanged, whether k sits in a leaf or in an internal node.
C3_InsertExisting ==
    [][(Calls("insert") /\ contains_key(self, last'.key)) =>
        /\ last'.ret = get(self, last'.key)
        /\ get(self', last'.key) = last'.val
        /\ length' = length]_vars
\* an insert that replaced a different value, of a key stored in an internal root
C3_Witness ==
    /\ last.op = "insert"
    /\ last.ret # None
    /\ last.ret # last.val
    /\ ~is_leaf(root)
    /\ search(root, last.key).found

\* C4: remove(k) where k is bound to v returns v, takes exactly 1 from len(),
\* makes get(k) absent and leaves the binding of every other key as it was.
C4_RemovePresent ==
    [][(Calls("remove") /\ contains_key(self, last'.key)) =>
        /\ last'.ret = get(self, last'.key)
        /\ length' = length - 1
        /\ get(self', last'.key) = None
        /\ \A k \in Keys \ {last'.key} : get(self', k) = get(self, k)]_vars
\* a remove of a bound key from a map of MaxKey pairs, leaving a two-level tree
C4_Witness ==
    /\ last.op = "remove"
    /\ last.ret # None
    /\ depth = 2
    /\ length = MaxKey - 1

\* C5: remove(k) of a key the map does not contain returns None and leaves the
\* whole map as it was: length, depth, nodes, bindings.
C5_RemoveAbsent ==
    [][(Calls("remove") /\ ~contains_key(self, last'.key)) =>
        /\ last'.ret = None
        /\ self' = self]_vars
\* a remove that found nothing in a tree with internal nodes
C5_Witness == last.op = "remove" /\ last.ret = None /\ depth >= 2

\* C6: the pairs next yields are the stored pairs in strictly ascending key
\* order, each once; next returns None when all are yielded, and only then.
C6_IterAscending ==
    it # NoIter =>
        /\ Len(out) <= Len(DictSeq)
        /\ out = SubSeq(DictSeq, 1, Len(out))
        /\ StrictlyIncreasing([i \in 1..Len(out) |-> out[i][1]])
        /\ Exhausted => out = DictSeq
        /\ out = DictSeq => AbsIter_next(it).ret = <<>>
\* an iteration over a tree three levels deep that ran until None
C6_Witness == Exhausted /\ depth = 3 /\ Len(out) = MaxKey

\* C7: between calls, length is the number of pairs reachable from the root,
\* and an iteration that runs until None has yielded that many pairs.
C7_LengthCounts ==
    /\ length = CountPairs(root)
    /\ Exhausted => Len(out) = length
\* a finished iteration over a tree with internal nodes, after a remove
C7_Witness == Exhausted /\ depth = 2 /\ length = 4 /\ DictSize = 4

\* C8: all leaves are at the same depth, and that depth, counted in nodes from
\* the root, is the depth field.
C8_LeavesAtDepth == LeafDepths(root, 1) = {depth}
\* an insert that split the root of a two-level tree
C8_Witness == last.op = "insert" /\ depth = 3

\* C9: every non-root node holds between B-1 and 2B-1 pairs.
C9_NodeLoad ==
    \A node \in NonRootNodes : len(node) >= b - 1 /\ len(node) <= 2 * b - 1
\* a remove that left a tree with internal nodes, with b = 3
C9_Witness == last.op = "remove" /\ last.ret # None /\ depth = 2 /\ b = 3

\* C10: the keys within each node are strictly increasing.
C10_KeysIncreasing == \A node \in AllNodes : StrictlyIncreasing(node.keys)
\* a remove that left a three-level tree in which some node holds several keys
C10_Witness ==
    /\ last.op = "remove"
    /\ last.ret # None
    /\ depth = 3
    /\ \E node \in AllNodes : len(node) >= 2

\* C11: for every internal node and every separator key of it, every key in
\* the subtree left of the separator is smaller and every key in the subtree
\* right of it is larger.
C11_InterNodeOrder ==
    \A node \in AllNodes : \A i \in 1..len(node) :
        ~is_leaf(node) =>
            /\ \A k \in SubtreeKeys(node.edges[i]) : k < node.keys[i]
            /\ \A k \in SubtreeKeys(node.edges[i + 1]) : k > node.keys[i]
\* a remove that left a three-level tree whose first internal child has two separators
C11_Witness ==
    /\ last.op = "remove"
    /\ last.ret # None
    /\ depth = 3
    /\ len(root.edges[1]) >= 2

\* C12: every internal node with L keys has exactly L+1 children and as many
\* values as keys; a leaf has no children.
C12_ChildrenCount ==
    \A node \in AllNodes :
        /\ Len(node.vals) = len(node)
        /\ Len(node.edges) \in {0, len(node) + 1}
        /\ is_leaf(node) <=> Len(node.edges) = 0
\* an insert that split the root and left an internal node with three children
C12_Witness ==
    /\ last.op = "insert"
    /\ last.ret = None
    /\ depth = 3
    /\ \E i \in 1..Len(root.edges) : Len(root.edges[i].edges) = 3

\* C13: the root holds between 0 and 2B-1 pairs, and a root that holds 0 pairs
\* is a leaf.
C13_RootLoad ==
    /\ len(root) >= 0
    /\ len(root) <= 2 * b - 1
    /\ len(root) = 0 => is_leaf(root)
\* a remove that took the last pair of the map: the root holds 0 pairs
C13_Witness ==
    /\ last.op = "remove"
    /\ last.ret # None
    /\ len(root) = 0
    /\ depth = 1

\* C14: the pairs next_back yields are the forward sequence reversed: every
\* stored pair once, in strictly descending key order, len() pairs when
\* next_back returns None, which it does only then.
C14_NextBackReverse ==
    it # NoIter =>
        LET rev == Reverse(Forward(self))
        IN  /\ Len(back) <= Len(rev)
            /\ back = SubSeq(rev, 1, Len(back))
            /\ StrictlyDecreasing([i \in 1..Len(back) |-> back[i][1]])
            /\ ExhaustedBack => back = rev /\ Len(back) = length
            /\ back = rev => AbsIter_next_back(it).ret = <<>>
\* a reverse iteration over a tree three levels deep that ran until None
C14_Witness == ExhaustedBack /\ depth = 3 /\ Len(back) = MaxKey

\* C15: while an iterator lives, size_hint() is (r, Some(r)) with r the number
\* of pairs not yet yielded: len() at the start, one less per pair yielded by
\* next or next_back, and 0 when either has returned None.
C15_SizeHint ==
    it # NoIter =>
        /\ size_hint(it) = <<length - Len(out) - Len(back),
                             length - Len(out) - Len(back)>>
        /\ size_hint(it)[1] = Len(Drain(it))
        /\ last.op = "iter" => size_hint(it) = <<length, length>>
        /\ (last.op \in {"next", "next_back"} /\ last.ret = None)
               => size_hint(it) = <<0, 0>>
\* an iteration from both ends of a three-level tree that ran until None
C15_Witness ==
    /\ Exhausted
    /\ depth = 3
    /\ Len(out) >= 3
    /\ Len(back) >= 3

\* C16: maps built by inserting the same pairs in different orders yield the
\* same iteration sequence: the map the calls so far have built, the map built
\* in ascending key order and the map built in descending key order.
C16_OrderIndependent ==
    /\ Forward(BuiltAscending) = Forward(BuiltDescending)
    /\ Forward(self) = Forward(BuiltAscending)
\* three maps of MaxKey pairs and three different shapes, the current one
\* built by inserts that never replaced a value
C16_Witness ==
    /\ last.op = "insert"
    /\ last.ret = None
    /\ length = MaxKey
    /\ BuiltAscending.root # BuiltDescending.root
    /\ root # BuiltAscending.root
    /\ root # BuiltDescending.root

\* C17: entry(k) returns an Occupied entry, sealed at k's pair, iff k is in
\* the map, and otherwise a Vacant entry for k sealed at a leaf edge; neither
\* obtaining the entry nor dropping it unused changes the map.
C17_EntryKind ==
    [][/\ Calls("entry") =>
            /\ self' = self
            /\ ent'.kind = IF contains_key(self, last'.key)
                           THEN "occupied" ELSE "vacant"
            /\ ent'.kind = "occupied" => peek_key(self', ent') = last'.key
            /\ ent'.kind = "vacant" =>
                   /\ ent'.key = last'.key
                   /\ is_leaf(NodeAt(root', ent'.top.node))
       /\ (last.op = "entry" /\ last' = Idle) => (self' = self /\ ent' = NoEntry)
      ]_vars
\* an Occupied entry for a key stored in an internal node of a three-level tree
C17_Witness ==
    /\ last.op = "entry"
    /\ ent.kind = "occupied"
    /\ depth = 3
    /\ ~is_leaf(NodeAt(root, ent.top.node))

\* C18: OccupiedEntry::insert(v) on the entry for k returns the value k was
\* bound to, leaves get(k) = v, and changes neither len() nor the binding of
\* any other key.
C18_OccupiedInsert ==
    [][(ent.kind = "occupied" /\ last'.op = "occupied_insert") =>
        /\ contains_key(self, last'.key)
        /\ last'.ret = get(self, last'.key)
        /\ get(self', last'.key) = last'.val
        /\ length' = length
        /\ \A k \in Keys \ {last'.key} : get(self', k) = get(self, k)]_vars
\* an OccupiedEntry::insert that replaced a different value in an internal node
C18_Witness ==
    /\ last.op = "occupied_insert"
    /\ last.ret # last.val
    /\ ent.kind = "occupied"
    /\ ~is_leaf(NodeAt(root, ent.top.node))

\* the structural invariants of the tree, C8 to C13
StructuralInvariants ==
    /\ C8_LeavesAtDepth
    /\ C9_NodeLoad
    /\ C10_KeysIncreasing
    /\ C11_InterNodeOrder
    /\ C12_ChildrenCount
    /\ C13_RootLoad

\* C19: OccupiedEntry::remove() on the entry for k returns the value k was
\* bound to, leaves get(k) absent and len() smaller by 1, and leaves the very
\* map remove(k) leaves, with all structural invariants.
C19_OccupiedRemove ==
    [][(ent.kind = "occupied" /\ last'.op = "occupied_remove") =>
        /\ contains_key(self, last'.key)
        /\ last'.ret = get(self, last'.key)
        /\ get(self', last'.key) = None
        /\ length' = length - 1
        /\ self' = remove(self, last'.key).map
        /\ StructuralInvariants']_vars
\* an OccupiedEntry::remove that left a three-level tree
C19_Witness == last.op = "occupied_remove" /\ last.ret # None /\ depth = 3

\* C20: VacantEntry::insert(v) on the entry for an absent key k binds k to v,
\* adds exactly 1 to len(), and the reference it returns designates the slot
\* of the final tree that holds k and v.
C20_VacantInsert ==
    [][(ent.kind = "vacant" /\ last'.op = "vacant_insert") =>
        /\ ~contains_key(self, last'.key)
        /\ get(self', last'.key) = last'.val
        /\ length' = length + 1
        /\ \A k \in Keys \ {last'.key} : get(self', k) = get(self, k)
        /\ ent'.kind = "ref"
        /\ ValidPath(root', ent'.top.node)
        /\ ent'.top.index < len(NodeAt(root', ent'.top.node))
        /\ At(NodeAt(root', ent'.top.node).keys, ent'.top.index) = last'.key
        /\ At(NodeAt(root', ent'.top.node).vals, ent'.top.index) = last'.val]_vars
\* a VacantEntry::insert that filled the map, in a three-level tree, whose
\* reference points into a leaf below the root's second child
C20_Witness ==
    /\ last.op = "vacant_insert"
    /\ ent.kind = "ref"
    /\ length = MaxKey
    /\ depth = 3
    /\ Len(ent.top.node) = 2
    /\ ent.top.node[1] = 1

\* C21: after clear() the map is an empty map: len() = 0, is_empty(), get(k)
\* absent for every k, depth 1, an empty leaf as root, and b as before.
C21_ClearEmpties ==
    [][Calls("clear") =>
        /\ map_len(self') = 0
        /\ is_empty(self')
        /\ \A k \in Keys : get(self', k) = None /\ ~contains_key(self', k)
        /\ depth' = 1
        /\ root' = make_leaf_root
        /\ b' = b]_vars
\* a clear of a map whose b is not the smallest
C21_Witness == last.op = "clear" /\ length = 0 /\ b = MaxB

\* C22: get(k) and contains_key(k) leave the map as it was (length, depth,
\* nodes, bindings); get(k) returns the binding of k, and contains_key(k) is
\* true iff get(k) returns a value.
C22_LookupFrame ==
    [][/\ Calls("get") =>
            /\ self' = self
            /\ last'.ret = dict[last'.key]
            /\ \A k \in Keys : get(self', k) = get(self, k)
       /\ Calls("contains_key") =>
            /\ self' = self
            /\ last'.ret = (get(self, last'.key) # None)
            /\ \A k \in Keys : get(self', k) = get(self, k)
      ]_vars
\* contains_key found a key stored below the root of a three-level tree
C22_Witness ==
    /\ last.op = "contains_key"
    /\ last.ret = TRUE
    /\ depth = 3
    /\ ~search(root, last.key).found

\* C23: with_b(b) panics and produces no map iff b < 2; for every b >= 2,
\* the smallest included, it returns a map with that b; and only a panicked
\* constructor leaves no map.
C23_WithBPrecondition ==
    /\ last.op = "with_b" =>
           /\ (last.val < 2) <=> (last.ret = Aborted)
           /\ last.ret = Aborted => self = NoMap
           /\ last.ret # Aborted => (self # NoMap /\ b = last.val /\ b >= 2)
    /\ self = NoMap => Panicked
\* with_b(1) panicked
C23_Witness == Panicked /\ last.val = 1 /\ self = NoMap

\* C24: the map new() or with_b(b) returns has length 0, depth 1 and an empty
\* leaf as root; new() uses b = 6 and with_b(b) the b it was given.
C24_FreshMap ==
    (last.op = "new" \/ (last.op = "with_b" /\ ~Panicked)) =>
        /\ length = 0
        /\ depth = 1
        /\ is_leaf(root)
        /\ len(root) = 0
        /\ root = make_leaf_root
        /\ b = IF last.op = "new" THEN 6 ELSE last.val
\* the map new() returned
C24_Witness == last.op = "new" /\ b = 6 /\ is_empty(self)

\* C25: inserting 1..n in ascending order and then removing 1..n in ascending
\* order, all structural invariants hold after every single operation, and
\* whenever the map is left with no pairs it has depth 1 and an empty leaf as
\* root.
C25_EmptyAgain ==
    /\ StructuralInvariants
    /\ length = DictSize
    /\ is_empty(self) => (depth = 1 /\ root = make_leaf_root)
\* with b = 2, 1..MaxKey were inserted and the remove of MaxKey, the last of
\* the ascending removes, left the map empty
C25_Witness ==
    /\ last.op = "remove"
    /\ last.key = MaxKey
    /\ last.ret # None
    /\ b = 2
    /\ is_empty(self)

\* C26 as stated: n >= 2B-1 ascending inserts into an empty map leave depth > 1.
C26_RootSplitAt2BMinus1 ==
    \A n \in 1..MaxKey :
        (BuiltFrom1To(n) /\ n >= 2 * b - 1) => depth > 1

\* C26 amended: a root leaf holds 2B-1 pairs, so the first 2B-1 ascending
\* inserts fit in it and depth stays 1; the insert number 2B splits the root,
\* and from n >= 2B on depth > 1; all structural invariants hold throughout.
C26_RootSplitAt2B ==
    /\ StructuralInvariants
    /\ \A n \in 1..MaxKey :
           BuiltFrom1To(n) =>
               /\ n >= 2 * b => depth > 1
               /\ n <= 2 * b - 1 => (depth = 1 /\ is_leaf(root))
\* the insert number 2B of an ascending run has just split the root leaf
C26_Witness ==
    /\ last.op = "insert"
    /\ last.key = 2 * b
    /\ BuiltFrom1To(2 * b)
    /\ depth = 2
    /\ len(root) = 1

\* C27: an insert changes depth iff its splits reach past the root, that is
\* iff the key is new and every node on its search path is full; depth then
\* grows by exactly 1 and the new root is internal with one key, the median
\* of the previous root, and two children: left what the previous root kept,
\* right the node split off it.
C27_RootSplit ==
    [][Calls("insert") =>
        IF PathFull(root, last'.key, b)
        THEN /\ depth' = depth + 1
             /\ len(root') = 1
             /\ Len(root'.edges) = 2
             /\ root'.keys[1] = At(root.keys, b - 1)
             /\ root'.vals[1] = At(root.vals, b - 1)
             /\ {root.keys[i] : i \in 1..(b - 1)} \subseteq KeysOf(root'.edges[1])
             /\ {root.keys[i] : i \in (b + 1)..(2 * b - 1)}
                    \subseteq KeysOf(root'.edges[2])
             /\ len(root'.edges[1]) + len(root'.edges[2]) = 2 * b - 1
             /\ SubtreeKeys(root') = SubtreeKeys(root) \cup {last'.key}
        ELSE depth' = depth]_vars
\* an insert into a two-level tree with b = 2 that left three levels
C27_Witness ==
    /\ last.op = "insert"
    /\ last.ret = None
    /\ b = 2
    /\ depth = 3
    /\ len(root) = 1
    /\ Len(root.edges) = 2

Underflowing ==
    IF rl.stack = <<>> THEN <<>>
    ELSE Append(Last(rl.stack).node, Last(rl.stack).index)

\* C29: every removal terminates: each iteration of the loop of remove_leaf
\* pops exactly one frame, the deepest one left, so no frame is handled twice;
\* the loop goes on only after rebalancing an underfull child, and returns at
\* the first frame whose child is not underfull or when the stack is empty
\* (hoisting a root left without keys); it computes what remove computes and
\* leaves the structural invariants restored.
C29_RemoveTerminates ==
    /\ [](rl.running =>
            /\ Len(rl.stack) <= depth - 1
            /\ \A i \in 1..Len(rl.stack) : Len(rl.stack[i].node) = i - 1
            /\ rl.underflow = is_underfull(NodeAt(root, Underflowing), b))
    /\ [][rl.running =>
            /\ rl'.running =>
                 /\ rl.stack # <<>> /\ rl.underflow
                 /\ rl'.stack = Front(rl.stack)
                 /\ remove_loop(self', rl'.stack, rl'.underflow)
                        = remove_loop(self, rl.stack, rl.underflow)
            /\ ~rl'.running =>
                 /\ rl.stack = <<>> \/ ~rl.underflow
                 /\ self' = remove_loop(self, rl.stack, rl.underflow)
                 /\ rl.stack # <<>> => self' = self
                 /\ StructuralInvariants'
                 /\ last'.op = "remove" /\ last'.ret = dict[last'.key]]_vars
    /\ [](~rl.running => StructuralInvariants)
    /\ (rl.running ~> ~rl.running)

\* an underflow that cascaded from a leaf through every level of a tree of
\* depth 3: the stack is empty and the root is left without keys
C29_Witness ==
    /\ rl.running /\ rl.stack = <<>> /\ rl.underflow
    /\ depth = 3 /\ len(root) = 0 /\ ~is_leaf(root)

\* C30: an insert of a new key whose leaf is not full, and a remove of a key
\* stored in a leaf that keeps at least min_load pairs, change that one leaf
\* only: the tree is the old tree with that leaf replaced, the leaf gained or
\* lost exactly the key, and depth is unchanged.
C30_LeafFrame ==
    [][LET key == last'.key
           e == entry(self, key)
           p == e.top.node
           leaf == NodeAt(root, p)
       IN  /\ (Calls("insert") /\ e.kind = "vacant" /\ ~is_full(leaf, b)) =>
                /\ depth' = depth
                /\ ValidPath(root', p)
                /\ root' = SetNode(root, p, NodeAt(root', p))
                /\ is_leaf(NodeAt(root', p))
                /\ KeysOf(NodeAt(root', p)) = KeysOf(leaf) \cup {key}
                /\ len(NodeAt(root', p)) = len(leaf) + 1
           /\ (/\ Calls("remove") /\ e.kind = "occupied" /\ is_leaf(leaf)
               /\ ~is_underfull(remove_as_leaf(leaf, e.top.index), b)) =>
                /\ depth' = depth
                /\ ValidPath(root', p)
                /\ root' = SetNode(root, p, NodeAt(root', p))
                /\ is_leaf(NodeAt(root', p))
                /\ KeysOf(NodeAt(root', p)) = KeysOf(leaf) \ {key}
                /\ len(NodeAt(root', p)) = len(leaf) - 1]_vars

\* an insert with b = 2 that left its key in a full leaf at the bottom of a
\* tree of depth 3: a leaf that had been split holds at most 2 pairs, so the
\* leaf had room and the insertion was a Fit
C30_Witness ==
    /\ last.op = "insert"
    /\ last.ret = None
    /\ b = 2
    /\ depth = 3
    /\ entry(self, last.key).kind = "occupied"
    /\ Len(entry(self, last.key).top.node) = 2
    /\ is_full(NodeAt(root, entry(self, last.key).top.node), b)

\* the smallest key of a non-empty set of keys
MinKey(keys) == CHOOSE k \in keys : \A other \in keys : k <= other

\* the path from node along its first edges down to a leaf
RECURSIVE LeftmostLeaf(_, _)
LeftmostLeaf(root_node, path) ==
    IF is_leaf(NodeAt(root_node, path)) THEN path
    ELSE LeftmostLeaf(root_node, Append(path, 0))

\* C31: remove(k) of a key stored in an internal node: into_leaf swaps k's
\* pair with its in-order successor, the first pair of the leftmost leaf of
\* the subtree right of k, and the removal happens at that leaf; remove
\* returns k's value, the successor keeps its own value, k is gone, and
\* the ordering invariants hold on return.
C31_SuccessorSwap ==
    [][LET key == last'.key
           e == entry(self, key)
           st == [stack |-> e.stack, top |-> e.top]
           p == e.top.node
           i == e.top.index
           node == NodeAt(root, p)
           succ == MinKey(SubtreeKeys(At(node.edges, i + 1)))
           leaf == LeftmostLeaf(root, Append(p, i + 1))
           l == into_leaf(self, st)
       IN  (Calls("remove") /\ e.kind = "occupied" /\ ~is_leaf(node)) =>
             /\ At(NodeAt(root, leaf).keys, 0) = succ
             /\ l.st.top = Handle(leaf, 0)
             /\ At(NodeAt(l.map.root, leaf).keys, 0) = key
             /\ At(NodeAt(l.map.root, leaf).vals, 0) = At(node.vals, i)
             /\ At(NodeAt(l.map.root, p).keys, i) = succ
             /\ At(NodeAt(l.map.root, p).vals, i) = get(self, succ)
             /\ self' = remove_leaf(l.map, l.st).map
             /\ last'.ret = At(node.vals, i)
             /\ get(self', succ) = get(self, succ) /\ get(self, succ) # None
             /\ get(self', key) = None
             /\ C10_KeysIncreasing' /\ C11_InterNodeOrder']_vars

\* key 4, the root separator of the tree extend built from 1..MaxKey ascending
\* with b = 2, was removed: its successor 5 took its place in the root
C31_Witness ==
    /\ last.op = "remove" /\ last.key = 4 /\ last.ret = 41
    /\ b = 2
    /\ length = MaxKey - 1
    /\ \A k \in Keys : (dict[k] = None) <=> (k = 4)
    /\ root.keys = <<5>>

\* the frames of a sealed stack are the edges of one path from the root to
\* the node of the terminal handle
Contiguous(map, st) ==
    /\ ValidPath(map.root, st.top.node)
    /\ Len(st.stack) = Len(st.top.node)
    /\ \A i \in 1..Len(st.stack) :
         /\ Len(st.stack[i].node) = i - 1
         /\ ~is_leaf(NodeAt(map.root, st.stack[i].node))
         /\ st.stack[i].index <= len(NodeAt(map.root, st.stack[i].node))
         /\ Append(st.stack[i].node, st.stack[i].index)
              = IF i < Len(st.stack) THEN st.stack[i + 1].node ELSE st.top.node
    /\ is_leaf(NodeAt(map.root, st.top.node)) => Len(st.stack) = map.depth - 1

\* C32: the stacks the descents of insert, remove and entry seal, and the
\* stack into_leaf extends, are contiguous paths from the root: the first
\* frame is at the root, each frame's edge leads to the next frame's node, the
\* last frame's edge leads to the node of the terminal handle, and a stack
\* sealed at a leaf has depth - 1 frames.
C32_StackContiguous ==
    \A key \in Keys :
        LET i == insert_find(self, PartialSearchStack_new(self), key)
            r == remove_find(self, PartialSearchStack_new(self), key)
            e == entry(self, key)
            l == into_leaf(self, r.st)
        IN  /\ Contiguous(self, i.st)
            /\ Contiguous(self, r.st)
            /\ Contiguous(self, [stack |-> e.stack, top |-> e.top])
            /\ r.found =>
                 /\ Contiguous(l.map, l.st)
                 /\ is_leaf(NodeAt(l.map.root, l.st.top.node))
                 /\ Len(l.st.stack) = depth - 1

\* a remove left a tree of depth 3: the stack of the root key is sealed with
\* no frame and into_leaf extends it by two frames
C32_Witness ==
    /\ last.op = "remove"
    /\ last.ret # None
    /\ depth = 3
    /\ len(root) = 1
    /\ Len(into_leaf(self, remove_find(self, PartialSearchStack_new(self),
                                       root.keys[1]).st).st.stack) = 2

\* a frame of a running remove_leaf loop is about to be rebalanced
Rebalancing == rl.running /\ rl.stack # <<>> /\ rl.underflow

RECURSIVE InOrderFrom(_, _)
InOrderFrom(node, i) ==
    (IF is_leaf(node) THEN <<>> ELSE InOrderFrom(At(node.edges, i), 0))
    \o (IF i >= len(node) THEN <<>>
        ELSE <<<<At(node.keys, i), At(node.vals, i)>>>> \o InOrderFrom(node, i + 1))
InOrder(node) == InOrderFrom(node, 0)

\* C34: a steal moves exactly one pair, and between internal nodes one child,
\* from the donor sibling through the parent: the donor loses one pair and
\* keeps at least B-1, the underfull child gains one, the parent keeps its
\* length, the stolen pair is the parent's new separator and the old separator
\* went to the child; the pairs of the parent's subtree keep their order.
C34_Steal ==
    [][Rebalancing =>
        LET handle == Last(rl.stack)
            i == handle.index
            parent == NodeAt(root, handle.node)
            after == NodeAt(root', handle.node)
            child == At(parent.edges, i)
            child2 == At(after.edges, i)
            from_left == /\ i > 0
                         /\ len(At(after.edges, i - 1)) < len(At(parent.edges, i - 1))
            donor == IF from_left THEN At(parent.edges, i - 1)
                     ELSE At(parent.edges, i + 1)
            donor2 == IF from_left THEN At(after.edges, i - 1)
                      ELSE At(after.edges, i + 1)
            sep == IF from_left THEN i - 1 ELSE i
        IN  Len(after.edges) = Len(parent.edges) =>
              /\ len(after) = len(parent)
              /\ len(donor2) = len(donor) - 1
              /\ len(donor2) >= b - 1
              /\ len(child2) = len(child) + 1
              /\ ~is_underfull(child2, b)
              /\ Len(donor2.edges) = (IF is_leaf(donor) THEN 0 ELSE Len(donor.edges) - 1)
              /\ Len(child2.edges) = (IF is_leaf(child) THEN 0 ELSE Len(child.edges) + 1)
              /\ At(after.keys, sep)
                   = (IF from_left THEN Last(donor.keys) ELSE Head(donor.keys))
              /\ At(after.vals, sep)
                   = (IF from_left THEN Last(donor.vals) ELSE Head(donor.vals))
              /\ At(parent.keys, sep)
                   = (IF from_left THEN Head(child2.keys) ELSE Last(child2.keys))
              /\ \A j \in 0..len(parent) :
                   j \notin {i, IF from_left THEN i - 1 ELSE i + 1}
                       => At(after.edges, j) = At(parent.edges, j)
              /\ \A j \in 0..(len(parent) - 1) :
                   j # sep => At(after.keys, j) = At(parent.keys, j)
              /\ InOrder(after) = InOrder(parent)
              /\ CountPairs(root') = CountPairs(root)]_vars

\* key 1 was removed from the tree extend built from 1..MaxKey ascending with
\* b = 2: the leaves of 1 and 3 were merged, their parent was left without
\* keys and stole separator 4 and the leaf of 5 from its right sibling, whose
\* first key 6 is the new root separator
C34_Witness ==
    /\ last.op = "remove" /\ last.key = 1 /\ last.ret = 11
    /\ b = 2
    /\ \A k \in Keys : (dict[k] = None) <=> (k = 1)
    /\ root.keys = <<6>>
    /\ root.edges[1].keys = <<4>>
    /\ root.edges[1].edges[2].keys = <<5>>
    /\ root.edges[2].keys = <<8>>

\* C35: a merge makes one node of the left sibling, the parent's separator
\* and the right sibling, in this order, with at most 2B-1 pairs; the
\* separator and one child reference leave the parent, whose length drops by
\* exactly 1; the pairs of the parent's subtree keep their order.
C35_Merge ==
    [][Rebalancing =>
        LET handle == Last(rl.stack)
            i == handle.index
            parent == NodeAt(root, handle.node)
            after == NodeAt(root', handle.node)
        IN  Len(after.edges) < Len(parent.edges) =>
              /\ len(after) = len(parent) - 1
              /\ Len(after.edges) = Len(parent.edges) - 1
              /\ \E m \in {i - 1, i} \cap 0..(len(parent) - 1) :
                   LET left == At(parent.edges, m)
                       right == At(parent.edges, m + 1)
                       merged == At(after.edges, m)
                   IN  /\ merged.keys = left.keys \o <<At(parent.keys, m)>> \o right.keys
                       /\ merged.vals = left.vals \o <<At(parent.vals, m)>> \o right.vals
                       /\ merged.edges = left.edges \o right.edges
                       /\ len(merged) <= 2 * b - 1
                       /\ len(merged) >= b - 1
                       /\ after.keys = RemoveAt(parent.keys, m)
                       /\ after.vals = RemoveAt(parent.vals, m)
                       /\ \A j \in 0..(len(parent) - 1) :
                            /\ j < m => At(after.edges, j) = At(parent.edges, j)
                            /\ j > m => At(after.edges, j) = At(parent.edges, j + 1)
              /\ rl'.running => rl'.underflow = (len(after) < b - 1)
              /\ InOrder(after) = InOrder(parent)
              /\ CountPairs(root') = CountPairs(root)]_vars

\* key 5 was removed from the tree extend built from 1..MaxKey ascending with
\* b = 2: its leaf was left empty beside the leaf of 7, which could not spare
\* a pair, and the two were merged around separator 6, leaving their parent
\* separator 8 alone
C35_Witness ==
    /\ last.op = "remove" /\ last.key = 5 /\ last.ret = 51
    /\ b = 2
    /\ \A k \in Keys : (dict[k] = None) <=> (k = 5)
    /\ root.keys = <<4>>
    /\ root.edges[2].keys = <<8>>
    /\ root.edges[2].edges[1].keys = <<6, 7>>

\* the node of the map that holds key
HolderOf(map, key) == NodeAt(map.root, entry(map, key).top.node)

\* the keys of s below (side = "left") or above (side = "right") its median
HalfOf(s, side, B) ==
    IF side = "left" THEN {s[j] : j \in 1..(B - 1)}
    ELSE {s[j] : j \in (B + 1)..(2 * B - 1)}

\* C36: an insertion into a full node, a leaf taking the new pair or an
\* internal node taking the median promoted from its full child, splits the
\* node around its median into a left and a right node of B-1 pairs and puts
\* the pair into the side where it belongs: afterwards one side holds B pairs
\* and the other B-1, the right one when the pair is above the median and the
\* left one otherwise, and the median is in neither.
C36_SplitThenInsert ==
    [][LET key == last'.key
           e == entry(self, key)
           p == e.top.node
       IN  (Calls("insert") /\ e.kind = "vacant") =>
             \A n \in 0..Len(p) :
               LET node == NodeAt(root, SubSeq(p, 1, n))
                   x == IF n = Len(p) THEN key
                        ELSE At(NodeAt(root, SubSeq(p, 1, n + 1)).keys, b - 1)
                   median == At(node.keys, b - 1)
                   left == HolderOf(self', node.keys[1])
                   right == HolderOf(self', Last(node.keys))
               IN  PathFull(node, key, b) =>
                     /\ Cardinality(HalfOf(node.keys, "left", b)) = b - 1
                     /\ Cardinality(HalfOf(node.keys, "right", b)) = b - 1
                     /\ left # right
                     /\ KeysOf(left) = HalfOf(node.keys, "left", b)
                            \cup (IF x < median THEN {x} ELSE {})
                     /\ KeysOf(right) = HalfOf(node.keys, "right", b)
                            \cup (IF x > median THEN {x} ELSE {})
                     /\ len(left) = (IF x < median THEN b ELSE b - 1)
                     /\ len(right) = (IF x > median THEN b ELSE b - 1)
                     /\ len(left) + len(right) = 2 * b - 1
                     /\ len(left) >= b - 1 /\ len(left) <= 2 * b - 1
                     /\ len(right) >= b - 1 /\ len(right) <= 2 * b - 1
                     /\ is_leaf(left) = is_leaf(node)
                     /\ is_leaf(right) = is_leaf(node)
                     /\ Len(left.edges) + Len(right.edges) = Len(node.edges)
                            + (IF is_leaf(node) THEN 0 ELSE 1)
                     /\ median \notin KeysOf(left) \cup KeysOf(right)
                     /\ x # median]_vars

\* with b = 2 and inserts only, the fourth key split the full root leaf and
\* went below its median: the left leaf holds B pairs and the right one B-1
C36_Witness ==
    /\ last.op = "insert" /\ last.ret = None
    /\ b = 2
    /\ length = 4
    /\ depth = 2
    /\ len(root) = 1
    /\ len(root.edges[1]) = 2
    /\ len(root.edges[2]) = 1
    /\ last.key \in KeysOf(root.edges[1])

\* how many levels above the leaves the node holding key is
HeightOf(map, key) == map.depth - 1 - Len(entry(map, key).top.node)

\* C37: on every split of an insert the pair promoted to the parent is the
\* median the node had before, never the pair being inserted into the node:
\* the new key ends in a leaf, the median of every full node on the path goes
\* up by exactly one level with its value, the separator a full internal node
\* receives stays at that node's level, and every other key keeps its level.
C37_MedianIsOld ==
    [][LET key == last'.key
           e == entry(self, key)
           p == e.top.node
           full == {n \in 0..Len(p) : PathFull(NodeAt(root, SubSeq(p, 1, n)), key, b)}
           medians == {At(NodeAt(root, SubSeq(p, 1, n)).keys, b - 1) : n \in full}
       IN  (Calls("insert") /\ e.kind = "vacant") =>
             /\ entry(self', key).kind = "occupied"
             /\ HeightOf(self', key) = 0
             /\ is_leaf(HolderOf(self', key))
             /\ key \notin medians
             /\ \A n \in full :
                  LET node == NodeAt(root, SubSeq(p, 1, n))
                      median == At(node.keys, b - 1)
                      x == IF n = Len(p) THEN key
                           ELSE At(NodeAt(root, SubSeq(p, 1, n + 1)).keys, b - 1)
                  IN  /\ median # x
                      /\ dict[median] # None
                      /\ HeightOf(self, median) = depth - 1 - n
                      /\ HeightOf(self', median) = HeightOf(self, median) + 1
                      /\ HeightOf(self', x) = depth - 1 - n
                      /\ get(self', median) = At(node.vals, b - 1)
                      /\ median \notin KeysOf(HolderOf(self', node.keys[1]))
                      /\ x \in KeysOf(HolderOf(self', node.keys[1]))
                             \cup KeysOf(HolderOf(self', Last(node.keys)))
             /\ \A k \in Keys :
                  (dict[k] # None /\ k \notin medians) =>
                      HeightOf(self', k) = HeightOf(self, k)]_vars

\* with b = 2 and inserts only, the fourth key went into the full root leaf
\* right below its median: it is the last key of the left leaf, and the root
\* holds the old median, not the new key
C37_Witness ==
    /\ last.op = "insert" /\ last.ret = None
    /\ b = 2
    /\ length = 4
    /\ depth = 2
    /\ root.edges[1].keys # <<>>
    /\ last.key = Last(root.edges[1].keys)
    /\ Len(root.edges[1].keys) = 2
    /\ root.keys[1] > last.key

\* C38: however next and next_back are interleaved on one iterator, every
\* pair is yielded exactly once across both ends: next yields the pairs in
\* ascending and next_back in descending key order, every key from next is
\* smaller than every key from next_back, and once len() pairs were yielded
\* both return None and size stays 0.
C38_DoubleEnded ==
    it # NoIter =>
        /\ Len(out) + Len(back) <= length
        /\ out = SubSeq(DictSeq, 1, Len(out))
        /\ back = SubSeq(Reverse(DictSeq), 1, Len(back))
        /\ StrictlyIncreasing([i \in 1..Len(out) |-> out[i][1]])
        /\ StrictlyDecreasing([i \in 1..Len(back) |-> back[i][1]])
        /\ \A i \in 1..Len(out) : \A j \in 1..Len(back) : out[i][1] < back[j][1]
        /\ it.size = length - Len(out) - Len(back)
        /\ it.size >= 0
        /\ Len(out) + Len(back) < length =>
             /\ AbsIter_next(it).ret = DictSeq[Len(out) + 1]
             /\ AbsIter_next_back(it).ret = DictSeq[length - Len(back)]
        /\ Len(out) + Len(back) = length =>
             /\ out \o Reverse(back) = DictSeq
             /\ AbsIter_next(it).ret = <<>> /\ AbsIter_next(it).it.size = 0
             /\ AbsIter_next_back(it).ret = <<>>
             /\ AbsIter_next_back(it).it.size = 0
        /\ (Exhausted \/ ExhaustedBack) => Len(out) + Len(back) = length

\* an iterator over a tree of depth 3 ran dry at the front after next_back
\* had gone two levels down the right path and next had yielded the rest
C38_Witness ==
    /\ Exhausted
    /\ depth = 3
    /\ Len(back) = 2
    /\ Len(out) = MaxKey - 2
    /\ b = 2

\* C39: insert(k, v) of a key the map holds changes the value slot of k and
\* nothing else: the tree is the old tree with v in that slot, no node is
\* split, no pair moves, depth and length are unchanged and the old value is
\* returned, wherever k is found and however full the nodes on the path are.
C39_OverwriteFrame ==
    [][LET key == last'.key
           e == entry(self, key)
           p == e.top.node
           i == e.top.index
           node == NodeAt(root, p)
       IN  (Calls("insert") /\ e.kind = "occupied") =>
             /\ root' = SetNode(root, p, [node EXCEPT !.vals[i + 1] = last'.val])
             /\ depth' = depth
             /\ length' = length
             /\ b' = b
             /\ last'.ret = At(node.vals, i)
             /\ At(node.keys, i) = key
             /\ entry(self', key) = e
             /\ \A k \in Keys : entry(self', k) = entry(self, k)
             /\ \A k \in Keys \ {key} : get(self', k) = get(self, k)
             /\ get(self', key) = last'.val]_vars

\* key 2 sat in a full root above a full leaf of a tree with b = 2 when an
\* insert gave it another value
C39_Witness ==
    /\ last.op = "insert" /\ last.key = 2
    /\ last.ret # None /\ last.ret # last.val
    /\ b = 2
    /\ ~is_leaf(root)
    /\ is_full(root, b)
    /\ search(root, 2).found
    /\ \E j \in {search(root, 2).index, search(root, 2).index + 1} :
         /\ is_leaf(At(root.edges, j))
         /\ is_full(At(root.edges, j), b)

=============================================================================
